---- MODULE Spec2Model ----
(***************************************************************************)
(* Model of the routing core of dauletbeck/freedom (backend/routing.py,    *)
(* backend/geocoding.py, backend/pipeline.py).                             *)
(*                                                                         *)
(* Strings: the source's Cyrillic literals are written in ASCII            *)
(* transliteration: "Astana" is the office name whose source spelling is   *)
(* the Cyrillic word for Astana, "Glavnyj specialist" the top seniority    *)
(* tier, "Smena dannyh" the data-change category, "Negativnyj" the         *)
(* negative tone.  A value that is in Latin script in the source data      *)
(* carries the prefix "lat:" ("lat:astana" is the Latin string astana).    *)
(* Coordinates are pairs of integers in units of 1e-4 degree, distances    *)
(* are integers in metres.                                                 *)
(***************************************************************************)
EXTENDS Naturals, Integers, Sequences, FiniteSets, TLC

VARIABLES
    managers,         \* the roster: sequence of Manager rows (models.py)
    rr_counters,      \* routing._rr_counters: dict rr_key -> int
    foreign_counter,  \* routing._foreign_counter[0]
    pc,               \* position of the pipeline loop
    processed,        \* number of tickets processed so far, over all runs
    run_size,         \* number of tickets the current run has taken
    ticket,           \* the ticket being processed (inputs of route_ticket)
    decision,         \* the tuple route_ticket returned for it
    trace,            \* intermediate values of that route_ticket call
    hub_log,          \* history: hub selections of the current run
    rr,               \* state of the assign_manager harness (SpecRR)
    threads           \* state of the interleaved callers (SpecConc)

vars == <<managers, rr_counters, foreign_counter, pc, processed, run_size,
          ticket, decision, trace, hub_log, rr, threads>>

-----------------------------------------------------------------------------
(* Bounds of the model.                                                    *)

NumManagers == 2
MaxTickets == 2

-----------------------------------------------------------------------------
(* Values.                                                                 *)

None == "None"
NoCoords == <<>>

\* Python truthiness of an Optional[str]: None and "" are falsy.
Truthy(s) == s # None /\ s # ""

-----------------------------------------------------------------------------
(* geocoding.py: static tables.                                            *)

\* The keys of OFFICE_COORDS in declaration order.  The order of the list is
\* also the order of the names as Python strings (the source declares the
\* offices alphabetically), which sorted() uses to order equal distances.
OFFICE_COORDS ==
    << "Aktau", "Aktobe", "Almaty", "Astana", "Atyrau", "Karaganda",
       "Kokshetau", "Kostanay", "Kyzylorda", "Pavlodar", "Petropavlovsk",
       "Taraz", "Uralsk", "Ust-Kamenogorsk", "Shymkent" >>

Offices == { OFFICE_COORDS[i] : i \in 1..Len(OFFICE_COORDS) }

OfficeRank(name) == CHOOSE i \in 1..Len(OFFICE_COORDS) : OFFICE_COORDS[i] = name

\* The entries of KZ_CITY_COORDS that the place names of the model reach.
KZ_CITY_COORDS ==
    "Almaty"         :> <<432220, 768512>>
 @@ "Astana"         :> <<511694, 714491>>
 @@ "Priozersk"      :> <<460833, 739333>>
 @@ "Zhambylskaya"   :> <<429000, 713667>>
 @@ "Arkalyk"        :> <<502500, 669167>>
 @@ "Kokpekty"       :> <<490333, 811333>>
 @@ "Kokpek"         :> <<438000, 780000>>

\* A coordinate the remote provider can return that lies outside the country.
MoscowPoint == <<557558, 376173>>

\* Two coordinates the provider can return between Almaty and Taraz.
\* ThresholdPoint is (43.445086053485646, 74.3907743881096), written to
\* 1e-4 degree: haversine puts Almaty at 203.9591801679946 km and Taraz at
\* 253.9591801679946 km of it, a difference of exactly 50.0.  BeyondPoint
\* is (43.4603, 74.3908): a difference of 50.2 km.
ThresholdPoint == <<434451, 743908>>
BeyondPoint == <<434603, 743908>>

\* A coordinate at the same distance of two offices: haversine puts
\* (42.607772988178574, 74.16872865862705) at 232.01566585329167 km of
\* Almaty and at 232.01566585329167 km of Taraz.
TiePoint == <<426078, 741687>>

\* haversine(lat, lon, office_lat, office_lon) for the coordinates above and
\* every office of OFFICE_COORDS, in metres (R = 6371 km).
HaversineTable ==
    <<432220, 768512>> :>
      ( "Aktau" :> 2066183 @@ "Aktobe" :> 1687086 @@ "Almaty" :> 3428
     @@ "Astana" :> 968998 @@ "Atyrau" :> 1988927 @@ "Karaganda" :> 787559
     @@ "Kokshetau" :> 1246442 @@ "Kostanay" :> 1476439
     @@ "Kyzylorda" :> 923906 @@ "Pavlodar" :> 1007849
     @@ "Petropavlovsk" :> 1409047 @@ "Taraz" :> 448151
     @@ "Uralsk" :> 2105202 @@ "Ust-Kamenogorsk" :> 867882
     @@ "Shymkent" :> 601270 )
 @@ <<511694, 714491>> :>
      ( "Aktau" :> 1732940 @@ "Aktobe" :> 1009051 @@ "Almaty" :> 974469
     @@ "Astana" :> 4456 @@ "Atyrau" :> 1481609 @@ "Karaganda" :> 189792
     @@ "Kokshetau" :> 274041 @@ "Kostanay" :> 578962
     @@ "Kyzylorda" :> 832128 @@ "Pavlodar" :> 397989
     @@ "Petropavlovsk" :> 438614 @@ "Taraz" :> 920700
     @@ "Uralsk" :> 1395024 @@ "Ust-Kamenogorsk" :> 800457
     @@ "Shymkent" :> 994603 )
 @@ <<460833, 739333>> :>
      ( "Aktau" :> 1808464 @@ "Aktobe" :> 1325674 @@ "Almaty" :> 395298
     @@ "Astana" :> 590136 @@ "Atyrau" :> 1676342 @@ "Karaganda" :> 419805
     @@ "Kokshetau" :> 864576 @@ "Kostanay" :> 1083659
     @@ "Kyzylorda" :> 671978 @@ "Pavlodar" :> 723317
     @@ "Petropavlovsk" :> 1032782 @@ "Taraz" :> 409828
     @@ "Uralsk" :> 1744488 @@ "Ust-Kamenogorsk" :> 775726
     @@ "Shymkent" :> 543497 )
 @@ <<429000, 713667>> :>
      ( "Aktau" :> 1633420 @@ "Aktobe" :> 1358616 @@ "Almaty" :> 450307
     @@ "Astana" :> 915097 @@ "Atyrau" :> 1590498 @@ "Karaganda" :> 780123
     @@ "Kokshetau" :> 1163797 @@ "Kostanay" :> 1281179
     @@ "Kyzylorda" :> 516402 @@ "Pavlodar" :> 1123405
     @@ "Petropavlovsk" :> 1339836 @@ "Taraz" :> 1596
     @@ "Uralsk" :> 1765550 @@ "Ust-Kamenogorsk" :> 1163595
     @@ "Shymkent" :> 159494 )
 @@ <<502500, 669167>> :>
      ( "Aktau" :> 1399441 @@ "Aktobe" :> 693304 @@ "Almaty" :> 1088798
     @@ "Astana" :> 333455 @@ "Atyrau" :> 1148856 @@ "Karaganda" :> 442966
     @@ "Kokshetau" :> 377340 @@ "Kostanay" :> 399707
     @@ "Kyzylorda" :> 612481 @@ "Pavlodar" :> 732528
     @@ "Petropavlovsk" :> 534289 @@ "Taraz" :> 885517
     @@ "Uralsk" :> 1097322 @@ "Ust-Kamenogorsk" :> 1119069
     @@ "Shymkent" :> 905675 )
 @@ <<557558, 376173>> :>
      ( "Aktau" :> 1656913 @@ "Aktobe" :> 1434000 @@ "Almaty" :> 3105694
     @@ "Astana" :> 2274129 @@ "Atyrau" :> 1377856 @@ "Karaganda" :> 2444965
     @@ "Kokshetau" :> 2049789 @@ "Kostanay" :> 1693580
     @@ "Kyzylorda" :> 2300487 @@ "Pavlodar" :> 2562056
     @@ "Petropavlovsk" :> 1980159 @@ "Taraz" :> 2792533
     @@ "Uralsk" :> 1038770 @@ "Ust-Kamenogorsk" :> 3033598
     @@ "Shymkent" :> 2731339 )
 @@ <<434451, 743908>> :>
      ( "Aktau" :> 1865816 @@ "Aktobe" :> 1510572 @@ "Almaty" :> 203959
     @@ "Astana" :> 882726 @@ "Atyrau" :> 1794327 @@ "Karaganda" :> 715338
     @@ "Kokshetau" :> 1154154 @@ "Kostanay" :> 1343250
     @@ "Kyzylorda" :> 725321 @@ "Pavlodar" :> 1001093
     @@ "Petropavlovsk" :> 1324735 @@ "Taraz" :> 253959
     @@ "Uralsk" :> 1926687 @@ "Ust-Kamenogorsk" :> 956723
     @@ "Shymkent" :> 411007 )
 @@ <<434603, 743908>> :>
      ( "Aktau" :> 1865563 @@ "Aktobe" :> 1509572 @@ "Almaty" :> 204148
     @@ "Astana" :> 881082 @@ "Atyrau" :> 1793725 @@ "Karaganda" :> 713661
     @@ "Kokshetau" :> 1152535 @@ "Kostanay" :> 1341821
     @@ "Kyzylorda" :> 724879 @@ "Pavlodar" :> 999427
     @@ "Petropavlovsk" :> 1323100 @@ "Taraz" :> 254348
     @@ "Uralsk" :> 1925728 @@ "Ust-Kamenogorsk" :> 955390
     @@ "Shymkent" :> 411483 )
 @@ <<426078, 741687>> :>
      ( "Aktau" :> 1864265 @@ "Aktobe" :> 1553370 @@ "Almaty" :> 232016
     @@ "Astana" :> 969780 @@ "Atyrau" :> 1813002 @@ "Karaganda" :> 805789
     @@ "Kokshetau" :> 1238755 @@ "Kostanay" :> 1413710
     @@ "Kyzylorda" :> 738375 @@ "Pavlodar" :> 1095917
     @@ "Petropavlovsk" :> 1410694 @@ "Taraz" :> 232016
     @@ "Uralsk" :> 1966516 @@ "Ust-Kamenogorsk" :> 1042112
     @@ "Shymkent" :> 377204 )

haversine(coords, office) == HaversineTable[coords][office]

-----------------------------------------------------------------------------
(* geocoding.py: string helpers.  str.strip().lower(), the alias table and *)
(* difflib.get_close_matches are tabulated for the place names of the      *)
(* model; the tables hold the values the Python functions return for them. *)

\* The place names tickets of the model carry (city or region):
\*   "Almaty", "Astana"       office cities, also gazetteer keys
\*   "Priozersk", "Arkalyk"   towns of the gazetteer without an office
\*   "Zhambylskaya"           a region of the gazetteer
\*   "lat:astana"             Latin-script alias of Astana
\*   "Astona"                 a misspelling of Astana
\*   "Zhambylskaya oblast"    a gazetteer key followed by another word
\*   "Neizvestno"             a word that matches nothing
\*   "Kokpek", "Kokpekty"     a gazetteer key contained in an earlier key
\*   "Kokpe"                  a misspelling of the first, part of both

\* s.strip().lower() of the strings of the model.  A string that is not in
\* the table is already trimmed and in lower case.
StripLowerTable ==
    "Aktau" :> "aktau" @@ "Aktobe" :> "aktobe" @@ "Almaty" :> "almaty"
 @@ "Astana" :> "astana" @@ "Atyrau" :> "atyrau"
 @@ "Karaganda" :> "karaganda" @@ "Kokshetau" :> "kokshetau"
 @@ "Kostanay" :> "kostanay" @@ "Kyzylorda" :> "kyzylorda"
 @@ "Pavlodar" :> "pavlodar" @@ "Petropavlovsk" :> "petropavlovsk"
 @@ "Taraz" :> "taraz" @@ "Uralsk" :> "uralsk"
 @@ "Ust-Kamenogorsk" :> "ust-kamenogorsk" @@ "Shymkent" :> "shymkent"
 @@ "Priozersk" :> "priozersk" @@ "Arkalyk" :> "arkalyk"
 @@ "Zhambylskaya" :> "zhambylskaya" @@ "Astona" :> "astona"
 @@ "Zhambylskaya oblast" :> "zhambylskaya oblast"
 @@ "Neizvestno" :> "neizvestno"
 @@ "Kokpek" :> "kokpek" @@ "Kokpekty" :> "kokpekty" @@ "Kokpe" :> "kokpe"
 @@ "Kazakhstan" :> "kazakhstan" @@ " Kazakhstan " :> "kazakhstan"
 @@ "lat:Kazakhstan" :> "lat:kazakhstan" @@ "lat:KZ" :> "lat:kz"
 @@ "lat:Russia" :> "lat:russia" @@ "   " :> ""
 @@ "KAZAKHSTAN" :> "kazakhstan" @@ "Qazaqstan" :> "qazaqstan"
 @@ "lat:Almaty" :> "lat:almaty"

StripLower(s) ==
    IF s \in DOMAIN StripLowerTable THEN StripLowerTable[s] ELSE s

\* _LATIN_TO_CYRILLIC, the entries the place names of the model reach.
LATIN_TO_CYRILLIC ==
    "lat:astana" :> "Astana" @@ "lat:almaty" :> "Almaty"

latin_to_cyrillic(name) ==
    IF StripLower(name) \in DOMAIN LATIN_TO_CYRILLIC
    THEN LATIN_TO_CYRILLIC[StripLower(name)]
    ELSE name

\* CITY_TO_OFFICES: normalised city name -> list of the offices of that name,
\* built from OFFICE_COORDS as the module-level loop builds it.
CITY_TO_OFFICES ==
    [ k \in { StripLower(o) : o \in Offices } |->
        SelectSeq(OFFICE_COORDS, LAMBDA o : StripLower(o) = k) ]

\* difflib.get_close_matches(word, OFFICE_COORDS.keys(), n=1, cutoff=0.75):
\* the best match, or None.
CloseOfficeMatch(word) ==
    CASE word \in Offices -> word
      [] word = "Astona" -> "Astana"
      [] OTHER -> None

\* difflib.get_close_matches(word, KZ_CITY_COORDS.keys(), n=1, cutoff=0.75)
CloseGazetteerMatch(word) ==
    CASE word \in DOMAIN KZ_CITY_COORDS -> word
      [] word = "Astona" -> "Astana"
      [] word = "Kokpe" -> "Kokpek"
      [] OTHER -> None

\* The first key of KZ_CITY_COORDS that contains the region or is contained
\* in it (lower-cased), or None.  The dictionary lists Kokpekty before
\* Kokpek.
SubstringMatch(region) ==
    CASE region \in {"Kokpek", "Kokpe"} -> "Kokpekty"
      [] region \in DOMAIN KZ_CITY_COORDS \ {"Kokpek"} -> region
      [] region = "Zhambylskaya oblast" -> "Zhambylskaya"
      [] OTHER -> None

fuzzy_city_lookup(name) ==
    IF CloseGazetteerMatch(name) # None
    THEN KZ_CITY_COORDS[CloseGazetteerMatch(name)]
    ELSE NoCoords

\* fuzzy_office_city without the difflib match: exact names only.
fuzzy_office_city_exact(city_name) ==
    IF ~Truthy(city_name) THEN None
    ELSE LET name == latin_to_cyrillic(city_name)
             norm == StripLower(name)
         IN IF norm \in DOMAIN CITY_TO_OFFICES /\ Len(CITY_TO_OFFICES[norm]) = 1
            THEN CITY_TO_OFFICES[norm][1] ELSE None

fuzzy_office_city(city_name) ==
    IF ~Truthy(city_name) THEN None
    ELSE LET name == latin_to_cyrillic(city_name)
             norm == StripLower(name)
         IN IF norm \in DOMAIN CITY_TO_OFFICES
            THEN IF Len(CITY_TO_OFFICES[norm]) = 1
                 THEN CITY_TO_OFFICES[norm][1] ELSE None
            ELSE CloseOfficeMatch(name)

\* kz_variants of is_foreign
kz_variants == { "kazakhstan", "lat:kazakhstan", "lat:kz", "qazaqstan" }

is_foreign(country) ==
    IF ~Truthy(country) THEN FALSE
    ELSE StripLower(country) \notin kz_variants

-----------------------------------------------------------------------------
(* geocoding.py: the remote provider and geocode_client.                   *)

KZ_LAT_MIN == 405000
KZ_LAT_MAX == 555000
KZ_LON_MIN == 502000
KZ_LON_MAX == 874000

\* The bounding box tested on the latitude only.
in_kz_bbox_lat_only(coords) ==
    KZ_LAT_MIN <= coords[1] /\ coords[1] <= KZ_LAT_MAX

in_kz_bbox(coords) ==
    /\ KZ_LAT_MIN <= coords[1] /\ coords[1] <= KZ_LAT_MAX
    /\ KZ_LON_MIN <= coords[2] /\ coords[2] <= KZ_LON_MAX

\* The missing key stopping the call only until the warning is printed.
missing_key_return_once(warned, outcome) ==
    [ coords |-> IF warned /\ outcome.kind = "point"
                 THEN outcome.point ELSE NoCoords,
      warned |-> TRUE ]

\* _twogis_geocode(query) with no API key configured: the warning is
\* printed once (_TWOGIS_MISSING_KEY_WARNED) and None is returned, whatever
\* the provider would answer.
missing_key_return(warned, outcome) ==
    [ coords |-> NoCoords, warned |-> TRUE ]

\* _twogis_geocode sending its request although no key is configured.
twogis_geocode_no_key_check(api_key, outcome) ==
    IF outcome.kind = "point" THEN outcome.point ELSE NoCoords

\* _twogis_geocode(query) as a function of whether an API key is configured
\* and of how the request ends: None without a key (no request is sent),
\* None when the request raises ("error", "timeout", "status": caught by
\* except Exception), when the reply has no item ("no_items") or its first
\* item no point ("no_point"), else the point of the first item.
twogis_geocode(api_key, outcome) ==
    IF ~api_key THEN NoCoords
    ELSE IF outcome.kind = "point" THEN outcome.point
    ELSE NoCoords

\* What _twogis_geocode may return for a query built from a place name:
\* None (no credential, an error, a timeout, no item) or a coordinate, which
\* the provider is free to place inside or outside the country.
TwogisReplies(place) ==
    IF place = "Arkalyk"
    THEN { NoCoords, KZ_CITY_COORDS["Arkalyk"], MoscowPoint }
    ELSE { NoCoords }

\* geocode_client trying the substring match before the typo-tolerant one.
geocode_client_substring_first(city, region, country, reply1, reply2) ==
    LET c == IF Truthy(city) THEN latin_to_cyrillic(city) ELSE city
        r == IF Truthy(region) THEN latin_to_cyrillic(region) ELSE region
    IN IF Truthy(c) /\ reply1 # NoCoords /\ in_kz_bbox(reply1) THEN reply1
       ELSE IF Truthy(r) /\ reply2 # NoCoords /\ in_kz_bbox(reply2) THEN reply2
       ELSE IF Truthy(r) /\ r \in DOMAIN KZ_CITY_COORDS THEN KZ_CITY_COORDS[r]
       ELSE IF Truthy(r) /\ SubstringMatch(r) # None
            THEN KZ_CITY_COORDS[SubstringMatch(r)]
       ELSE IF Truthy(r) /\ fuzzy_city_lookup(r) # NoCoords
            THEN fuzzy_city_lookup(r)
       ELSE NoCoords

\* The remote queries geocode_client issues, in order: the city query when
\* there is a city, the region-only query when there is a region and the
\* city query did not return.
queries_issued(city, region, reply1) ==
    (IF Truthy(city) THEN << "city" >> ELSE << >>)
    \o (IF /\ Truthy(region)
           /\ ~(Truthy(city) /\ reply1 # NoCoords /\ in_kz_bbox(reply1))
        THEN << "region" >> ELSE << >>)

\* reply1 is the provider's answer to the city query, reply2 to the
\* region-only query; each is read only if the code issues that query.
geocode_client(city, region, country, reply1, reply2) ==
    LET c == IF Truthy(city) THEN latin_to_cyrillic(city) ELSE city
        r == IF Truthy(region) THEN latin_to_cyrillic(region) ELSE region
    IN IF Truthy(c) /\ reply1 # NoCoords /\ in_kz_bbox(reply1) THEN reply1
       ELSE IF Truthy(r) /\ reply2 # NoCoords /\ in_kz_bbox(reply2) THEN reply2
       ELSE IF Truthy(r) /\ r \in DOMAIN KZ_CITY_COORDS THEN KZ_CITY_COORDS[r]
       ELSE IF Truthy(r) /\ fuzzy_city_lookup(r) # NoCoords
            THEN fuzzy_city_lookup(r)
       ELSE IF Truthy(r) /\ SubstringMatch(r) # None
            THEN KZ_CITY_COORDS[SubstringMatch(r)]
       ELSE NoCoords

\* sorted((haversine(...), name) for name in OFFICE_COORDS): ascending by
\* distance, equal distances by name.  Entries are <<distance, name>>.
\* Equal distances ordered by name descending.
PairLess_names_descending(a, b) ==
    \/ a[1] < b[1]
    \/ a[1] = b[1] /\ OfficeRank(a[2]) > OfficeRank(b[2])

PairLess(a, b) ==
    \/ a[1] < b[1]
    \/ a[1] = b[1] /\ OfficeRank(a[2]) < OfficeRank(b[2])

RECURSIVE SortPairs(_)
SortPairs(S) ==
    IF S = {} THEN <<>>
    ELSE LET m == CHOOSE x \in S : \A y \in S \ {x} : PairLess(x, y)
         IN <<m>> \o SortPairs(S \ {m})

\* find_sorted_offices of every coordinate of the model.
SortedOfficesTable ==
    [ c \in DOMAIN HaversineTable |->
        SortPairs({ <<haversine(c, o), o>> : o \in Offices }) ]

find_sorted_offices(coords) == SortedOfficesTable[coords]

-----------------------------------------------------------------------------
(* models.py: Manager rows, and the rosters of the model.                  *)

\* position: "Specialist" < "Vedushchij specialist" < "Glavnyj specialist"
\* skills:   a subset of {"VIP", "KZ", "ENG"}
Manager(office, position, skills, current_load) ==
    [ office |-> office, position |-> position, skills |-> skills,
      current_load |-> current_load ]

\* The rows a roster of the model is made of (managers.csv supplies office,
\* position, skills and the starting load of every manager).
ManagerProfiles ==
    { Manager("Astana", "Glavnyj specialist", {"VIP", "KZ", "ENG"}, 1),
      Manager("Almaty", "Vedushchij specialist", {"VIP", "KZ"}, 0),
      Manager("Almaty", "Specialist", {"ENG"}, 2),
      Manager("Taraz", "Specialist", {"KZ"}, 0) }

Rosters == [ 1..NumManagers -> ManagerProfiles ]

\* needle in s, for the position titles of the model (none contains another)
InStr(needle, s) == needle = s

-----------------------------------------------------------------------------
(* routing.py                                                              *)

EQUIDISTANT_THRESHOLD_KM == 50

\* build_rr_key that formats the language as given, without the bucket.
build_rr_key_raw_language(office, is_vip, is_data_change, language, needs_senior) ==
    <<office, is_vip, is_data_change, language, needs_senior>>

\* build_rr_key: the f-string "{office}|vip=..|data=..|lang=..|senior=.."
\* as the tuple of the values it formats.
build_rr_key(office, is_vip, is_data_change, language, needs_senior) ==
    LET lang == IF language \in {"KZ", "ENG"} THEN language ELSE "RU"
    IN <<office, is_vip, is_data_change, lang, needs_senior>>

RECURSIVE SumLoads(_, _, _)
SumLoads(ms, office, i) ==
    IF i > Len(ms) THEN 0
    ELSE (IF ms[i].office = office THEN ms[i].current_load ELSE 0)
         + SumLoads(ms, office, i + 1)

\* The threshold test with a strict comparison.
Equidistant_strict(dist1, dist2) ==
    dist2 - dist1 < EQUIDISTANT_THRESHOLD_KM * 1000

\* dist2 - dist1 <= EQUIDISTANT_THRESHOLD_KM, the distances in metres.
Equidistant(dist1, dist2) ==
    dist2 - dist1 <= EQUIDISTANT_THRESHOLD_KM * 1000

\* The number of managers of the office instead of the sum of their loads.
office_load_headcount(ms, office) ==
    Len(SelectSeq(ms, LAMBDA m : m.office = office))

\* _office_load: sum(m.current_load for m in managers if m.office == office)
office_load(ms, office) == SumLoads(ms, office, 1)

\* The result of get_target_office: the tuple it returns, the value it
\* leaves in _foreign_counter[0], and the rule that decided.
TargetOffice(office, coords, counter, branch, nearest) ==
    [ office |-> office, coords |-> coords, foreign_counter |-> counter,
      branch |-> branch, nearest |-> nearest ]

\* The hub expression with its two hubs exchanged.
HubFor_swapped(counter) == IF counter % 2 = 0 THEN "Almaty" ELSE "Astana"

\* "Astana" if _foreign_counter[0] % 2 == 0 else "Almaty"
HubFor(counter) == IF counter % 2 = 0 THEN "Astana" ELSE "Almaty"

\* The hub rule without its increment of the shared counter.
HubRule_no_increment(counter, branch) ==
    TargetOffice(HubFor(counter), NoCoords, counter, branch, <<>>)

\* The hub rule advancing the shared counter by two.
HubRule_double_increment(counter, branch) ==
    TargetOffice(HubFor(counter), NoCoords, counter + 2, branch, <<>>)

\* The 50/50 hub rule of the foreign and of the unresolved branch: the hub
\* of the counter's parity, no coordinates, the counter advanced by one.
HubRule(counter, branch) ==
    TargetOffice(HubFor(counter), NoCoords, counter + 1, branch, <<>>)

\* get_target_office trying the city shortcut before the foreign rule.
get_target_office_shortcut_first(country, city, region, ms, counter, reply1, reply2) ==
    LET matched_office == fuzzy_office_city(city)
        shortcut == /\ Truthy(city)
                    /\ matched_office # None
                    /\ StripLower(matched_office) \in DOMAIN CITY_TO_OFFICES
                    /\ Len(CITY_TO_OFFICES[StripLower(matched_office)]) = 1
        coords == geocode_client(city, region, country, reply1, reply2)
        sorted_offices == find_sorted_offices(coords)
        office1 == sorted_offices[1][2]
        office2 == sorted_offices[2][2]
    IN IF shortcut
       THEN TargetOffice(matched_office,
                         IF matched_office \in DOMAIN KZ_CITY_COORDS
                         THEN KZ_CITY_COORDS[matched_office] ELSE NoCoords,
                         counter, "city", <<>>)
       ELSE IF is_foreign(country)
       THEN HubRule(counter, "foreign")
       ELSE IF coords = NoCoords
       THEN HubRule(counter, "unresolved")
       ELSE IF /\ Len(sorted_offices) >= 2
               /\ Equidistant(sorted_offices[1][1], sorted_offices[2][1])
       THEN TargetOffice(IF office_load(ms, office1) <= office_load(ms, office2)
                         THEN office1 ELSE office2,
                         coords, counter, "equidistant", sorted_offices)
       ELSE TargetOffice(office1, coords, counter, "nearest", sorted_offices)

get_target_office(country, city, region, ms, counter, reply1, reply2) ==
    LET matched_office == fuzzy_office_city(city)
        shortcut == /\ Truthy(city)
                    /\ matched_office # None
                    /\ StripLower(matched_office) \in DOMAIN CITY_TO_OFFICES
                    /\ Len(CITY_TO_OFFICES[StripLower(matched_office)]) = 1
        coords == geocode_client(city, region, country, reply1, reply2)
        sorted_offices == find_sorted_offices(coords)
        office1 == sorted_offices[1][2]
        office2 == sorted_offices[2][2]
    IN IF is_foreign(country)
       THEN HubRule(counter, "foreign")
       ELSE IF shortcut
       THEN TargetOffice(matched_office,
                         IF matched_office \in DOMAIN KZ_CITY_COORDS
                         THEN KZ_CITY_COORDS[matched_office] ELSE NoCoords,
                         counter, "city", <<>>)
       ELSE IF coords = NoCoords
       THEN HubRule(counter, "unresolved")
       ELSE IF /\ Len(sorted_offices) >= 2
               /\ Equidistant(sorted_offices[1][1], sorted_offices[2][1])
       THEN TargetOffice(IF office_load(ms, office1) <= office_load(ms, office2)
                         THEN office1 ELSE office2,
                         coords, counter, "equidistant", sorted_offices)
       ELSE TargetOffice(office1, coords, counter, "nearest", sorted_offices)

\* pool.sort(key=lambda m: m.current_load): stable, so the managers of one
\* load keep their order.  Pools are sequences of roster indices.
RECURSIVE SortByLoad(_, _, _, _)
SortByLoad(ms, pool, load, top) ==
    IF load > top THEN <<>>
    ELSE SelectSeq(pool, LAMBDA i : ms[i].current_load = load)
         \o SortByLoad(ms, pool, load + 1, top)

RECURSIVE MaxLoad(_, _)
MaxLoad(ms, i) ==
    IF i > Len(ms) THEN 0
    ELSE LET rest == MaxLoad(ms, i + 1)
         IN IF ms[i].current_load >= rest THEN ms[i].current_load ELSE rest

\* The pool left in roster order.
sort_by_load_skipped(ms, pool) == pool

\* pool.sort(key=lambda m: m.current_load) of filter_managers
sort_by_load(ms, pool) == SortByLoad(ms, pool, 0, MaxLoad(ms, 1))

RECURSIVE Indices(_)
Indices(n) == IF n = 0 THEN <<>> ELSE Append(Indices(n - 1), n)

\* The slice that keeps the whole list.
Take_all(s, n) == s

\* s[:n]
Take(s, n) == IF Len(s) <= n THEN s ELSE SubSeq(s, 1, n)

\* limit=None of the source is NoLimit here.
NoLimit == -1

\* The language filter with its ENG branch missing.
LanguageFilter_kz_only(ms, pool, language) ==
    IF language = "KZ"
    THEN SelectSeq(pool, LAMBDA i : "KZ" \in ms[i].skills)
    ELSE pool

\* The language hard filter of filter_managers.
LanguageFilter(ms, pool, language) ==
    IF language = "KZ"
    THEN SelectSeq(pool, LAMBDA i : "KZ" \in ms[i].skills)
    ELSE IF language = "ENG"
    THEN SelectSeq(pool, LAMBDA i : "ENG" \in ms[i].skills)
    ELSE pool

\* The soft preference keeping the senior pool even when it is empty.
SeniorPreference_strict(ms, pool, sentiment) ==
    IF sentiment = "Negativnyj"
    THEN SelectSeq(pool, LAMBDA i :
             \/ InStr("Vedushchij specialist", ms[i].position)
             \/ InStr("Glavnyj specialist", ms[i].position))
    ELSE pool

\* The soft preference of filter_managers: for a negative sentiment the
\* senior managers of the pool, if there is one.
SeniorPreference(ms, pool, sentiment) ==
    LET senior_pool ==
            SelectSeq(pool, LAMBDA i :
                \/ InStr("Vedushchij specialist", ms[i].position)
                \/ InStr("Glavnyj specialist", ms[i].position))
    IN IF sentiment = "Negativnyj" /\ senior_pool # <<>>
       THEN senior_pool ELSE pool

\* Without a target office every manager of the roster taken.
OfficePool_everyone(ms, office) ==
    IF Truthy(office)
    THEN SelectSeq(Indices(Len(ms)), LAMBDA i : ms[i].office = office)
    ELSE Indices(Len(ms))

\* The office filter of filter_managers: the managers of the office, or
\* without a target office the managers that have an office.
OfficePool(ms, office) ==
    IF Truthy(office)
    THEN SelectSeq(Indices(Len(ms)), LAMBDA i : ms[i].office = office)
    ELSE SelectSeq(Indices(Len(ms)), LAMBDA i : Truthy(ms[i].office))

filter_managers(ms, office, segment, ticket_type, language, sentiment, limit) ==
    LET in_office == OfficePool(ms, office)
        vip ==
            IF segment \in {"VIP", "Priority"}
            THEN SelectSeq(in_office, LAMBDA i : "VIP" \in ms[i].skills)
            ELSE in_office
        chief ==
            IF ticket_type = "Smena dannyh"
            THEN SelectSeq(vip, LAMBDA i :
                     InStr("Glavnyj specialist", ms[i].position))
            ELSE vip
        lang == LanguageFilter(ms, chief, language)
        sorted == sort_by_load(ms, lang)
        pool == SeniorPreference(ms, sorted, sentiment)
    IN IF limit = NoLimit THEN pool ELSE Take(pool, limit)

\* _rr_counters.get(rr_key, 0)
CounterGet(counters, rr_key) ==
    IF rr_key \in DOMAIN counters THEN counters[rr_key] ELSE 0

\* _rr_counters[rr_key] = value
CounterSet(counters, rr_key, value) ==
    [ k \in DOMAIN counters \cup {rr_key} |->
        IF k = rr_key THEN value ELSE counters[k] ]

\* assign_manager without the write of line 252: the counter never advances.
assign_manager_no_write(eligible, rr_key, counters) ==
    IF eligible = <<>>
    THEN [ manager |-> 0, rr_index |-> 0, rr_counters |-> counters ]
    ELSE LET current == CounterGet(counters, rr_key)
             idx == current % Len(eligible)
         IN [ manager |-> eligible[idx + 1], rr_index |-> idx,
              rr_counters |-> counters ]

\* assign_manager taking the index after the increment.
assign_manager_post_increment(eligible, rr_key, counters) ==
    IF eligible = <<>>
    THEN [ manager |-> 0, rr_index |-> 0, rr_counters |-> counters ]
    ELSE LET current == CounterGet(counters, rr_key) + 1
             idx == current % Len(eligible)
         IN [ manager |-> eligible[idx + 1], rr_index |-> idx,
              rr_counters |-> CounterSet(counters, rr_key, current) ]

\* assign_manager creating the counter entry before the empty-pool return.
assign_manager_setdefault(eligible, rr_key, counters) ==
    LET current == CounterGet(counters, rr_key)
    IN IF eligible = <<>>
       THEN [ manager |-> 0, rr_index |-> 0,
              rr_counters |-> CounterSet(counters, rr_key, current) ]
       ELSE LET idx == current % Len(eligible)
            IN [ manager |-> eligible[idx + 1], rr_index |-> idx,
                 rr_counters |-> CounterSet(counters, rr_key, current + 1) ]

\* assign_manager storing the next index instead of the next count.
assign_manager_wrapped(eligible, rr_key, counters) ==
    IF eligible = <<>>
    THEN [ manager |-> 0, rr_index |-> 0, rr_counters |-> counters ]
    ELSE LET current == CounterGet(counters, rr_key)
             idx == current % Len(eligible)
         IN [ manager |-> eligible[idx + 1], rr_index |-> idx,
              rr_counters |-> CounterSet(counters, rr_key,
                                         (current + 1) % Len(eligible)) ]

\* assign_manager: the pair it returns and the counters it leaves.
\* manager 0 is None.
assign_manager(eligible, rr_key, counters) ==
    IF eligible = <<>>
    THEN [ manager |-> 0, rr_index |-> 0, rr_counters |-> counters ]
    ELSE LET current == CounterGet(counters, rr_key)
             idx == current % Len(eligible)
         IN [ manager |-> eligible[idx + 1], rr_index |-> idx,
              rr_counters |-> CounterSet(counters, rr_key, current + 1) ]

\* The hubs tried in the opposite order.
fallback_offices_reversed == << "Almaty", "Astana" >>

fallback_offices == << "Astana", "Almaty" >>

\* The while loop of route_ticket from fallback_idx = i on: the pool and the
\* office it ends with.
RECURSIVE FallbackLoop(_, _, _, _, _)
FallbackLoop(ms, t, eligible, office, i) ==
    IF eligible # <<>> \/ i > Len(fallback_offices)
    THEN [ eligible |-> eligible, office |-> office ]
    ELSE LET fallback == fallback_offices[i]
             found == filter_managers(ms, fallback, t.segment, t.ticket_type,
                                      t.language, t.sentiment, 2)
         IN IF fallback # office
            THEN FallbackLoop(ms, t, found,
                              IF found # <<>> THEN fallback ELSE office, i + 1)
            ELSE FallbackLoop(ms, t, eligible, office, i + 1)

\* route_ticket building the key from the office selected before the
\* fallback loop.
route_ticket_key_of_selected(ms, t, counters, counter, reply1, reply2) ==
    LET target == get_target_office(t.country, t.city, t.region, ms, counter,
                                    reply1, reply2)
        first == filter_managers(ms, target.office, t.segment, t.ticket_type,
                                 t.language, t.sentiment, 2)
        final == FallbackLoop(ms, t, first, target.office, 1)
        is_vip == t.segment \in {"VIP", "Priority"}
        is_data_change == t.ticket_type = "Smena dannyh"
        needs_senior == t.sentiment = "Negativnyj"
        rr_key == build_rr_key(target.office, is_vip, is_data_change,
                               t.language, needs_senior)
        assigned == assign_manager(final.eligible, rr_key, counters)
    IN [ manager |-> assigned.manager, office |-> final.office,
         coords |-> target.coords, rr_index |-> assigned.rr_index,
         rr_counters |-> assigned.rr_counters,
         foreign_counter |-> target.foreign_counter,
         target |-> target, eligible |-> final.eligible, rr_key |-> rr_key ]

\* route_ticket taking the office of the last hub tried whether or not the
\* hub had an eligible manager.
route_ticket_office_of_last_hub(ms, t, counters, counter, reply1, reply2) ==
    LET target == get_target_office(t.country, t.city, t.region, ms, counter,
                                    reply1, reply2)
        first == filter_managers(ms, target.office, t.segment, t.ticket_type,
                                 t.language, t.sentiment, 2)
        final == FallbackLoop(ms, t, first, target.office, 1)
        office == IF final.eligible = <<>>
                  THEN fallback_offices[Len(fallback_offices)]
                  ELSE final.office
        is_vip == t.segment \in {"VIP", "Priority"}
        is_data_change == t.ticket_type = "Smena dannyh"
        needs_senior == t.sentiment = "Negativnyj"
        rr_key == build_rr_key(office, is_vip, is_data_change,
                               t.language, needs_senior)
        assigned == assign_manager(final.eligible, rr_key, counters)
    IN [ manager |-> assigned.manager, office |-> office,
         coords |-> target.coords, rr_index |-> assigned.rr_index,
         rr_counters |-> assigned.rr_counters,
         foreign_counter |-> target.foreign_counter,
         target |-> target, eligible |-> final.eligible, rr_key |-> rr_key ]

\* route_ticket: the tuple it returns (manager, office, coords, rr_index),
\* the two counters as it leaves them, and its intermediate values.
route_ticket(ms, t, counters, counter, reply1, reply2) ==
    LET target == get_target_office(t.country, t.city, t.region, ms, counter,
                                    reply1, reply2)
        first == filter_managers(ms, target.office, t.segment, t.ticket_type,
                                 t.language, t.sentiment, 2)
        final == FallbackLoop(ms, t, first, target.office, 1)
        is_vip == t.segment \in {"VIP", "Priority"}
        is_data_change == t.ticket_type = "Smena dannyh"
        needs_senior == t.sentiment = "Negativnyj"
        rr_key == build_rr_key(final.office, is_vip, is_data_change,
                               t.language, needs_senior)
        assigned == assign_manager(final.eligible, rr_key, counters)
    IN [ manager |-> assigned.manager, office |-> final.office,
         coords |-> target.coords, rr_index |-> assigned.rr_index,
         rr_counters |-> assigned.rr_counters,
         foreign_counter |-> target.foreign_counter,
         target |-> target, eligible |-> final.eligible, rr_key |-> rr_key ]

-----------------------------------------------------------------------------
(* pipeline.py: run_pipeline.  A run resets the counters, then takes the   *)
(* pending tickets one at a time: route_ticket, then the assignment is     *)
(* persisted and the manager's load incremented.                           *)

EmptyCounters == [ k \in {} |-> 0 ]

\* The locations of the tickets of the model: one for every rule of
\* get_target_office.
LocationQueries ==
    { [ country |-> "lat:Russia", city |-> "Almaty", region |-> None ],
      [ country |-> "Kazakhstan", city |-> "Almaty", region |-> None ],
      [ country |-> None, city |-> None, region |-> None ],
      [ country |-> None, city |-> None, region |-> "Priozersk" ],
      [ country |-> "Kazakhstan", city |-> "Arkalyk", region |-> None ],
      [ country |-> "Kazakhstan", city |-> None, region |-> "Zhambylskaya" ] }

\* What the classifier and the segment label say about a ticket: segment,
\* ticket_type, language, sentiment.  No filter, each filter alone, and
\* filters together.
Classifications ==
    { << "Mass", "Konsultaciya", "RU",  "Nejtralnyj" >>,
      << "VIP",  "Konsultaciya", "RU",  "Nejtralnyj" >>,
      << "Mass", "Smena dannyh", "RU",  "Nejtralnyj" >>,
      << "Mass", "Konsultaciya", "KZ",  "Nejtralnyj" >>,
      << "Mass", "Konsultaciya", "ENG", "Nejtralnyj" >>,
      << "Mass", "Konsultaciya", "RU",  "Negativnyj" >>,
      << "Priority", "Smena dannyh", "KZ", "Negativnyj" >>,
      << "VIP",  "Konsultaciya", "ENG", "Negativnyj" >> }

Ticket(loc, class) ==
    [ country |-> loc.country, city |-> loc.city, region |-> loc.region,
      segment |-> class[1], ticket_type |-> class[2],
      language |-> class[3], sentiment |-> class[4] ]

Tickets == { Ticket(loc, class) : loc \in LocationQueries, class \in Classifications }

NoTicket == [ country |-> None ]
NoDecision == [ manager |-> 0 ]
NoTrace == [ branch |-> None ]

\* Values of the variables a specification does not use.
Unused == <<>>

\* reset_counters without _rr_counters.clear().
reset_counters_shared_only ==
    /\ rr_counters' = rr_counters
    /\ foreign_counter' = 0

\* reset_counters()
reset_counters ==
    /\ rr_counters' = EmptyCounters
    /\ foreign_counter' = 0

Init ==
    /\ managers \in Rosters
    /\ rr_counters = EmptyCounters
    /\ foreign_counter = 0
    /\ pc = "stopped"
    /\ processed = 0
    /\ run_size = 0
    /\ ticket = NoTicket
    /\ decision = NoDecision
    /\ trace = NoTrace
    /\ hub_log = <<>>
    /\ rr = Unused
    /\ threads = Unused

\* The loads left as they are.
IncrementLoad_skipped(ms, manager) == ms

\* The load of every manager of the assigned one's office incremented.
IncrementLoad_office(ms, manager) ==
    [ i \in 1..Len(ms) |->
        IF manager # 0 /\ ms[i].office = ms[manager].office
        THEN [ ms[i] EXCEPT !.current_load = @ + 1 ]
        ELSE ms[i] ]

\* if manager: manager.current_load += 1 (manager 0 is None)
IncrementLoad(ms, manager) ==
    [ i \in 1..Len(ms) |->
        IF i = manager
        THEN [ ms[i] EXCEPT !.current_load = @ + 1 ]
        ELSE ms[i] ]

\* run_pipeline up to the loop: the counters are reset.
StartRun ==
    /\ pc = "stopped"
    /\ reset_counters
    /\ pc' = "idle"
    /\ hub_log' = <<>>
    /\ run_size' = 0
    /\ UNCHANGED <<managers, processed, ticket, decision, trace, rr, threads>>

\* One call of route_ticket on the next pending ticket.
RouteTicket ==
    /\ pc = "idle"
    /\ processed < MaxTickets
    /\ \E t \in Tickets :
       \E reply1 \in TwogisReplies(t.city), reply2 \in TwogisReplies(t.region) :
       \E r \in { route_ticket(managers, t, rr_counters, foreign_counter,
                                 reply1, reply2) } :
            /\ ticket' = t
            /\ decision' = [ manager |-> r.manager, office |-> r.office,
                             coords |-> r.coords, rr_index |-> r.rr_index ]
            /\ trace' = [ branch |-> r.target.branch,
                          selected |-> r.target.office,
                          nearest |-> Take(r.target.nearest, 2),
                          eligible |-> r.eligible, rr_key |-> r.rr_key ]
            /\ rr_counters' = r.rr_counters
            /\ foreign_counter' = r.foreign_counter
            /\ hub_log' = IF r.target.branch \in {"foreign", "unresolved"}
                          THEN Append(hub_log,
                                      [ branch |-> r.target.branch,
                                        selected |-> r.target.office,
                                        office |-> r.office ])
                          ELSE hub_log
    /\ pc' = "routed"
    /\ processed' = processed + 1
    /\ run_size' = run_size + 1
    /\ UNCHANGED <<managers, rr, threads>>

\* The analysis and the assignment are persisted: manager.current_load += 1
\* if a manager was assigned.
Persist ==
    /\ pc = "routed"
    /\ managers' = IncrementLoad(managers, decision.manager)
    /\ pc' = "idle"
    /\ ticket' = NoTicket
    /\ decision' = NoDecision
    /\ trace' = NoTrace
    /\ UNCHANGED <<rr_counters, foreign_counter, processed, run_size, hub_log,
                   rr, threads>>

\* The pending list is exhausted: the run ends.
EndRun ==
    /\ pc = "idle"
    /\ pc' = "stopped"
    /\ UNCHANGED <<managers, rr_counters, foreign_counter, processed, run_size,
                   ticket, decision, trace, hub_log, rr, threads>>

Next == StartRun \/ RouteTicket \/ Persist \/ EndRun

Spec == Init /\ [][Next]_vars

-----------------------------------------------------------------------------
(* assign_manager on its own: calls that share a key and are presented    *)
(* with the same eligible list, from any starting value of the counter.    *)

MaxPool == 3      \* largest eligible list
MaxStart == 2     \* largest starting value of a counter
MaxCalls == 6     \* calls of assign_manager in one sequence

RRKeys ==
    { build_rr_key("Astana", FALSE, FALSE, "RU", FALSE),
      build_rr_key("Almaty", TRUE, FALSE, "KZ", FALSE) }

RECURSIVE SumOver(_, _)
SumOver(f, S) ==
    IF S = {} THEN 0
    ELSE LET x == CHOOSE y \in S : TRUE IN f[x] + SumOver(f, S \ {x})

\* rr: per key the eligible list, the counter the sequence started from,
\* the calls made, the calls each position of the list has received and the
\* index of the last call (-1: none yet); since_reset: reset_counters() was
\* called and the sequence restarted.
InitRR ==
    /\ \E sizes \in [ RRKeys -> 1..MaxPool ], starts \in [ RRKeys -> 0..MaxStart ] :
         /\ rr = [ pool |-> [ k \in RRKeys |-> Indices(sizes[k]) ],
                   start |-> starts,
                   calls |-> [ k \in RRKeys |-> 0 ],
                   wins |-> [ k \in RRKeys |-> [ i \in 1..MaxPool |-> 0 ] ],
                   last |-> [ k \in RRKeys |-> -1 ],
                   since_reset |-> FALSE ]
         /\ rr_counters = starts
    /\ foreign_counter = 0
    /\ managers = Unused
    /\ pc = "rr"
    /\ processed = 0
    /\ run_size = 0
    /\ ticket = NoTicket
    /\ decision = NoDecision
    /\ trace = NoTrace
    /\ hub_log = <<>>
    /\ threads = Unused

\* One call assign_manager(eligible, rr_key).
AssignCall ==
    /\ SumOver(rr.calls, RRKeys) < MaxCalls
    /\ \E k \in RRKeys :
       \E r \in { assign_manager(rr.pool[k], k, rr_counters) } :
            /\ rr_counters' = r.rr_counters
            /\ rr' = [ rr EXCEPT !.calls[k] = @ + 1,
                                 !.wins[k][r.manager] = @ + 1,
                                 !.last[k] = r.rr_index ]
            /\ decision' = [ manager |-> r.manager, rr_index |-> r.rr_index ]
    /\ UNCHANGED <<managers, foreign_counter, pc, processed, run_size, ticket,
                   trace, hub_log, threads>>

\* reset_counters(): the sequences start again.
ResetCall ==
    /\ reset_counters
    /\ rr' = [ rr EXCEPT !.start = [ k \in RRKeys |-> 0 ],
                         !.calls = [ k \in RRKeys |-> 0 ],
                         !.wins = [ k \in RRKeys |-> [ i \in 1..MaxPool |-> 0 ] ],
                         !.last = [ k \in RRKeys |-> -1 ],
                         !.since_reset = TRUE ]
    /\ decision' = NoDecision
    /\ UNCHANGED <<managers, pc, processed, run_size, ticket, trace, hub_log,
                   threads>>

SpecRR == InitRR /\ [][AssignCall \/ ResetCall]_vars

\* C1: after N calls that share one key and the same non-empty eligible
\* list of size k, from any starting counter, every member of the list has
\* been chosen floor(N/k) or ceil(N/k) times.
RoundRobinFair ==
    \A k \in RRKeys :
        LET n == rr.calls[k]
            size == Len(rr.pool[k])
        IN \A i \in 1..size :
               rr.wins[k][i] \in { n \div size, (n + size - 1) \div size }

\* A sequence of four calls over a list of three that started from counter 1.
RoundRobinFairWitness ==
    \E k \in RRKeys :
        /\ Len(rr.pool[k]) = 3
        /\ rr.start[k] = 1
        /\ ~rr.since_reset
        /\ rr.calls[k] = 4
        /\ rr.wins[k][2] = 2

\* C2: under one key with a list of fixed size k the index of a call is the
\* index of the call before it plus one, modulo k, and the first call after
\* a reset returns index 0.
IndexAdvances ==
    [][ \A k \in RRKeys :
          rr'.calls[k] = rr.calls[k] + 1 =>
              /\ rr.last[k] >= 0 =>
                    rr'.last[k] = (rr.last[k] + 1) % Len(rr.pool[k])
              /\ (rr.since_reset /\ rr.last[k] = -1) => rr'.last[k] = 0 ]_vars

\* After a reset, a list of three has been walked through and wrapped.
IndexAdvancesWitness ==
    \E k \in RRKeys :
        /\ rr.since_reset
        /\ Len(rr.pool[k]) = 3
        /\ rr.calls[k] = 4
        /\ rr.last[k] = 0

-----------------------------------------------------------------------------
(* assign_manager called from several threads.  The function holds no     *)
(* lock: the read of the counter (line 250) and the write of the           *)
(* incremented value (line 252) are separate steps, and a thread switch    *)
(* can fall between them.                                                  *)

NumThreads == 2       \* threads that route tickets at the same time
MaxThreadCalls == 2   \* calls of assign_manager per thread

ConcPool == Indices(2)

\* threads[i]: where thread i stands in assign_manager ("out": not in a
\* call, "read": current has been read), the key and the value read, the
\* calls it has completed and the (key, current, idx) of each of its calls.
InitConc ==
    /\ threads = [ i \in 1..NumThreads |->
                     [ pc |-> "out", rr_key |-> None, current |-> 0,
                       calls |-> 0, seen |-> <<>> ] ]
    /\ rr_counters = EmptyCounters
    /\ foreign_counter = 0
    /\ managers = Unused
    /\ pc = "threads"
    /\ processed = 0
    /\ run_size = 0
    /\ ticket = NoTicket
    /\ decision = NoDecision
    /\ trace = NoTrace
    /\ hub_log = <<>>
    /\ rr = Unused

\* current = _rr_counters.get(rr_key, 0)
ReadCounter(i) ==
    /\ threads[i].pc = "out"
    /\ threads[i].calls < MaxThreadCalls
    /\ \E k \in RRKeys :
         threads' = [ threads EXCEPT
                        ![i].pc = "read",
                        ![i].rr_key = k,
                        ![i].current = CounterGet(rr_counters, k) ]
    /\ UNCHANGED <<managers, rr_counters, foreign_counter, pc, processed,
                   run_size, ticket, decision, trace, hub_log, rr>>

\* idx = current % len(eligible); _rr_counters[rr_key] = current + 1
WriteCounter(i) ==
    /\ threads[i].pc = "read"
    /\ rr_counters' = CounterSet(rr_counters, threads[i].rr_key,
                                 threads[i].current + 1)
    /\ threads' = [ threads EXCEPT
                      ![i].pc = "out",
                      ![i].rr_key = None,
                      ![i].current = 0,
                      ![i].calls = @ + 1,
                      ![i].seen = Append(@, [ rr_key |-> threads[i].rr_key,
                                              current |-> threads[i].current,
                                              idx |-> threads[i].current
                                                        % Len(ConcPool) ]) ]
    /\ UNCHANGED <<managers, foreign_counter, pc, processed, run_size, ticket,
                   decision, trace, hub_log, rr>>

SpecConc == InitConc /\ [][\E i \in 1..NumThreads : ReadCounter(i) \/ WriteCounter(i)]_vars

\* C3: however the calls of several threads interleave, no two calls of one
\* key observe the same counter value, and once n calls of a key have
\* completed its counter has advanced by exactly n.
DistinctCounterValues ==
    LET calls_of(k) ==
            { <<i, a>> \in (1..NumThreads) \X (1..MaxThreadCalls) :
                  a <= Len(threads[i].seen) /\ threads[i].seen[a].rr_key = k }
    IN /\ \A k \in RRKeys :
             \A x, y \in calls_of(k) :
                 x # y => threads[x[1]].seen[x[2]].current
                            # threads[y[1]].seen[y[2]].current
       /\ (\A i \in 1..NumThreads : threads[i].pc = "out")
             => \A k \in RRKeys :
                    CounterGet(rr_counters, k) = Cardinality(calls_of(k))

-----------------------------------------------------------------------------
(* Properties of route_ticket, stated on the runs of Spec.  The           *)
(* eligibility of a manager, the hub of a position and the workload of an  *)
(* office are restated here from the attributes of the managers and the    *)
(* ticket, apart from the operators of the model.                          *)

Hubs == { "Astana", "Almaty" }

\* The hub of the j-th hub-rule request of a run.
HubByPosition(j) == IF j % 2 = 1 THEN "Astana" ELSE "Almaty"

PassesHardFilters(m, t) ==
    /\ t.segment \in {"VIP", "Priority"} => "VIP" \in m.skills
    /\ t.ticket_type = "Smena dannyh" => m.position = "Glavnyj specialist"
    /\ t.language = "KZ" => "KZ" \in m.skills
    /\ t.language = "ENG" => "ENG" \in m.skills

EligibleAt(ms, office, t) ==
    { i \in 1..Len(ms) : ms[i].office = office /\ PassesHardFilters(ms[i], t) }

Workload(ms, office) ==
    SumOver([ i \in 1..Len(ms) |->
                IF ms[i].office = office THEN ms[i].current_load ELSE 0 ],
            1..Len(ms))

\* The step in which route_ticket is called.
RouteStep == pc = "idle" /\ pc' = "routed"

\* C4: when neither the selected office nor a fallback hub has an eligible
\* manager, route_ticket returns no manager and rotation index 0 and leaves
\* the per-class counters as they were.
EmptyPoolTerminal ==
    [][ ( /\ RouteStep
          /\ \A o \in {trace'.selected} \cup Hubs :
                 EligibleAt(managers, o, ticket') = {} )
        => /\ decision'.manager = 0
           /\ decision'.rr_index = 0
           /\ rr_counters' = rr_counters ]_vars

\* A ticket left unassigned after both hubs were tried, in a run that has
\* counters to leave alone.
EmptyPoolTerminalWitness ==
    /\ pc = "routed"
    /\ decision.manager = 0
    /\ trace.selected \notin Hubs
    /\ rr_counters # EmptyCounters
    /\ \A o \in {trace.selected} \cup Hubs : EligibleAt(managers, o, ticket) = {}

\* C5 as stated: a request that ends unassigned leaves the whole rotation
\* state, the per-class counters and the shared counter, unchanged.
UnassignedLeavesRotationState ==
    [][ (RouteStep /\ decision'.manager = 0)
        => /\ rr_counters' = rr_counters
           /\ foreign_counter' = foreign_counter ]_vars

\* C5 amended: a call of route_ticket changes the per-class counters only in
\* its final assignment step (the counter of the request's key, by one,
\* when a manager is assigned; nothing when the request ends unassigned);
\* the shared counter is advanced by one during office selection when the
\* hub rule decides, assigned or not, and is unchanged otherwise.
CountersChangeAtTheirSteps ==
    [][ RouteStep
        => /\ rr_counters' =
                 IF decision'.manager = 0 THEN rr_counters
                 ELSE CounterSet(rr_counters, trace'.rr_key,
                                 CounterGet(rr_counters, trace'.rr_key) + 1)
           /\ foreign_counter' =
                 IF trace'.branch \in {"foreign", "unresolved"}
                 THEN foreign_counter + 1 ELSE foreign_counter ]_vars

\* An unassigned request that went through the hub rule and advanced the
\* shared counter.
CountersChangeAtTheirStepsWitness ==
    /\ pc = "routed"
    /\ decision.manager = 0
    /\ trace.branch \in {"foreign", "unresolved"}
    /\ foreign_counter = Len(hub_log)
    /\ foreign_counter >= 1
    /\ rr_counters # EmptyCounters

\* C6: a manager returned by route_ticket, fallback included, belongs to the
\* office of the decision and passes every hard filter the request makes
\* active: VIP skill for VIP and Priority, top tier for a data change, KZ or
\* ENG skill for the language.
HardFiltersHold ==
    (pc = "routed" /\ decision.manager # 0)
    => /\ managers[decision.manager].office = decision.office
       /\ PassesHardFilters(managers[decision.manager], ticket)

\* A Priority data-change ticket in KZ assigned through the fallback.
HardFiltersHoldWitness ==
    /\ pc = "routed"
    /\ decision.manager # 0
    /\ decision.office # trace.selected
    /\ ticket.segment = "Priority"
    /\ ticket.ticket_type = "Smena dannyh"
    /\ ticket.language = "KZ"

AllForeignRun ==
    /\ Len(hub_log) = run_size
    /\ \A j \in 1..Len(hub_log) : hub_log[j].branch = "foreign"

FallbackOrder ==
    pc = "routed" =>
        LET sel == trace.selected
            E(o) == EligibleAt(managers, o, ticket)
        IN IF E(sel) # {}
           THEN decision.office = sel /\ decision.manager \in E(sel)
           ELSE IF E("Astana") # {}
           THEN decision.office = "Astana" /\ decision.manager \in E("Astana")
           ELSE IF E("Almaty") # {}
           THEN decision.office = "Almaty" /\ decision.manager \in E("Almaty")
           ELSE decision.office = sel /\ decision.manager = 0

\* A data-change ticket of an office without a top-tier manager, assigned
\* at Astana.
FallbackOrderWitness ==
    /\ pc = "routed"
    /\ ticket.ticket_type = "Smena dannyh"
    /\ trace.selected = "Taraz"
    /\ \E i \in 1..Len(managers) : managers[i].office = "Taraz"
    /\ decision.office = "Astana"
    /\ decision.manager # 0

\* The two nearest offices of every point, read off the distances: the
\* nearest office, and the nearest of the others.
NearestPair ==
    [ c \in DOMAIN HaversineTable |->
        LET o1 == CHOOSE o \in Offices :
                      \A p \in Offices : haversine(c, o) <= haversine(c, p)
            o2 == CHOOSE o \in Offices \ {o1} :
                      \A p \in Offices \ {o1} : haversine(c, o) <= haversine(c, p)
        IN << o1, o2 >> ]

\* The two nearest offices are within the threshold of each other.
WithinThreshold(c) ==
    haversine(c, NearestPair[c][2]) - haversine(c, NearestPair[c][1])
        <= EQUIDISTANT_THRESHOLD_KM * 1000

\* C10: for a resolved location whose two nearest offices are at distances
\* d1 <= d2 with d2 - d1 <= 50 km, office selection returns the one of the
\* two with the lower total workload, and the nearer one when the workloads
\* are equal.
EquidistantTieBreak ==
    ( /\ pc = "routed"
      /\ decision.coords # NoCoords
      /\ trace.branch # "city"
      /\ WithinThreshold(decision.coords) )
    => LET o1 == NearestPair[decision.coords][1]
           o2 == NearestPair[decision.coords][2]
       IN trace.selected = IF Workload(managers, o1) <= Workload(managers, o2)
                           THEN o1 ELSE o2

\* The farther office of the pair selected for its lower, non-zero workload.
EquidistantTieBreakWitness ==
    /\ pc = "routed"
    /\ decision.coords # NoCoords
    /\ trace.branch # "city"
    /\ WithinThreshold(decision.coords)
    /\ Workload(managers, NearestPair[decision.coords][1])
         > Workload(managers, NearestPair[decision.coords][2])
    /\ Workload(managers, NearestPair[decision.coords][2]) > 0
    /\ trace.selected = NearestPair[decision.coords][2]

-----------------------------------------------------------------------------
(* get_target_office on its own: one call, for any roster, any value of    *)
(* the shared counter, a country, a city and a region of the ticket, and   *)
(* any answer of the remote provider.                                      *)

MaxCounter == 3     \* largest value of the shared counter before the call

\* The country column: absent, empty, blank, the domestic spellings (as
\* written, padded, upper case, Latin, the two-letter code, the Kazakh
\* spelling) and a foreign country.
TargetCountries ==
    { None, "", "   ", "Kazakhstan", " Kazakhstan ", "KAZAKHSTAN",
      "lat:Kazakhstan", "lat:KZ", "Qazaqstan", "lat:Russia" }

\* The city column: absent, an office city, a Latin alias of one, a
\* misspelling of one, the office city that has no gazetteer entry, and a
\* town without office.
TargetCities ==
    { None, "Almaty", "lat:astana", "Astona", "Karaganda", "Arkalyk" }

TargetQueries ==
    { [ country |-> c, city |-> l[1], region |-> l[2] ] :
        c \in TargetCountries,
        l \in { <<None, None>>, <<"Almaty", None>>, <<None, "Priozersk">> } }
    \cup
    { [ country |-> c, city |-> t, region |-> r ] :
        c \in { None, "Kazakhstan", "lat:Russia" },
        t \in TargetCities,
        r \in { None, "Priozersk" } }

\* What the provider may answer to a query about a place.
TargetReplies(place) ==
    IF Truthy(place)
    THEN { NoCoords, MoscowPoint, ThresholdPoint, BeyondPoint, TiePoint,
           KZ_CITY_COORDS["Arkalyk"] }
    ELSE { NoCoords }

InitTarget ==
    /\ managers \in Rosters
    /\ foreign_counter \in 0..MaxCounter
    /\ rr_counters = EmptyCounters
    /\ pc = "target"
    /\ processed = 0
    /\ run_size = 0
    /\ ticket = NoTicket
    /\ decision = NoDecision
    /\ trace = NoTrace
    /\ hub_log = <<>>
    /\ rr = Unused
    /\ threads = Unused

\* One call get_target_office(country, city, region, managers=managers).
\* trace keeps what it returned, the counter it found and the answers the
\* provider had for it.
SelectOffice ==
    /\ pc = "target"
    /\ \E q \in TargetQueries :
       \E reply1 \in TargetReplies(q.city), reply2 \in TargetReplies(q.region) :
       \E r \in { get_target_office(q.country, q.city, q.region, managers,
                                     foreign_counter, reply1, reply2) } :
            /\ ticket' = q
            /\ trace' = [ branch |-> r.branch, selected |-> r.office,
                          coords |-> r.coords, before |-> foreign_counter,
                          reply1 |-> reply1, reply2 |-> reply2,
                          nearest |-> r.nearest ]
            /\ foreign_counter' = r.foreign_counter
    /\ pc' = "selected"
    /\ UNCHANGED <<managers, rr_counters, processed, run_size, decision,
                   hub_log, rr, threads>>

SpecTarget == InitTarget /\ [][SelectOffice]_vars

\* C11: in coordinate-based selection, when the two nearest offices differ
\* by more than 50 km the nearest is selected whatever the workloads; a
\* difference of exactly 50 km is equidistant, so the workloads decide; and
\* no office but the two nearest is selected.
NearestBeyondThreshold ==
    ( /\ pc = "selected"
      /\ trace.coords # NoCoords
      /\ trace.branch # "city" )
    => LET c == trace.coords
           o1 == NearestPair[c][1]
           o2 == NearestPair[c][2]
           diff == haversine(c, o2) - haversine(c, o1)
       IN /\ trace.selected \in {o1, o2}
          /\ diff > EQUIDISTANT_THRESHOLD_KM * 1000 => trace.selected = o1
          /\ diff = EQUIDISTANT_THRESHOLD_KM * 1000 =>
                trace.selected = IF Workload(managers, o1) <= Workload(managers, o2)
                                 THEN o1 ELSE o2

\* 50.2 km between the two nearest offices: the nearest is selected although
\* it carries the higher workload.
NearestBeyondThresholdWitness ==
    /\ pc = "selected"
    /\ trace.coords = BeyondPoint
    /\ Workload(managers, "Almaty") > Workload(managers, "Taraz")
    /\ \E i \in 1..Len(managers) : managers[i].office = "Taraz"
    /\ trace.selected = "Almaty"

\* The values of the country column that name no foreign country: absent,
\* empty, blank, or a spelling of the home country.
NotForeignCountries ==
    { None, "", "   ", "Kazakhstan", " Kazakhstan ", "KAZAKHSTAN",
      "lat:Kazakhstan", "lat:KZ", "Qazaqstan" }

OfficeOfCity ==
    "Almaty" :> "Almaty" @@ "lat:astana" :> "Astana" @@ "Astona" :> "Astana"
 @@ "Karaganda" :> "Karaganda"

\* C13: for a request the foreign rule does not take and whose city names
\* exactly one office, get_target_office returns that office by the city
\* shortcut: whatever the geocoder would answer and whatever the workloads,
\* with the shared counter untouched, and with the gazetteer coordinate of
\* the city (none if it has no entry), which plays no part in the choice.
CityShortcut ==
    ( /\ pc = "selected"
      /\ trace.branch # "foreign"
      /\ ticket.city \in DOMAIN OfficeOfCity )
    => LET office == OfficeOfCity[ticket.city]
       IN /\ trace.branch = "city"
          /\ trace.selected = office
          /\ trace.coords = IF office \in DOMAIN KZ_CITY_COORDS
                            THEN KZ_CITY_COORDS[office] ELSE NoCoords
          /\ foreign_counter = trace.before

\* A misspelt Astana with a region, where the provider would have answered
\* with a point between Almaty and Taraz: Astana is selected, the counter
\* stays.
CityShortcutWitness ==
    /\ pc = "selected"
    /\ ticket.city = "Astona"
    /\ ticket.region = "Priozersk"
    /\ trace.reply1 = ThresholdPoint
    /\ trace.selected = "Astana"
    /\ trace.coords = KZ_CITY_COORDS["Astana"]
    /\ foreign_counter = trace.before
    /\ foreign_counter = 1

-----------------------------------------------------------------------------
(* route_ticket called for a sequence of requests of every eligibility     *)
(* class.  The tickets name their office city, so office selection takes   *)
(* the city shortcut; the languages include one the classifier does not    *)
(* know.                                                                   *)

MaxRequests == 2    \* calls of route_ticket in one sequence

\* segment, ticket_type, language, sentiment.  "DE" is a language value
\* other than KZ, ENG and RU.
ClassInputs ==
    { << "Mass", "Konsultaciya", "RU",  "Nejtralnyj" >>,
      << "Mass", "Konsultaciya", "DE",  "Nejtralnyj" >>,
      << "Mass", "Konsultaciya", "KZ",  "Nejtralnyj" >>,
      << "Mass", "Konsultaciya", "ENG", "Nejtralnyj" >>,
      << "VIP",  "Konsultaciya", "RU",  "Nejtralnyj" >>,
      << "Priority", "Konsultaciya", "RU", "Nejtralnyj" >>,
      << "Mass", "Smena dannyh", "RU",  "Nejtralnyj" >>,
      << "Mass", "Konsultaciya", "RU",  "Negativnyj" >>,
      << "Mass", "Konsultaciya", "DE",  "Negativnyj" >>,
      << "VIP",  "Smena dannyh", "KZ",  "Negativnyj" >> }

ClassTickets ==
    { Ticket([ country |-> "Kazakhstan", city |-> c, region |-> None ], class) :
        c \in { "Almaty", "lat:astana" }, class \in ClassInputs }

InitClass ==
    /\ managers \in Rosters
    /\ rr_counters = EmptyCounters
    /\ foreign_counter = 0
    /\ pc = "class"
    /\ processed = 0
    /\ run_size = 0
    /\ ticket = NoTicket
    /\ decision = NoDecision
    /\ trace = NoTrace
    /\ hub_log = <<>>
    /\ rr = Unused
    /\ threads = Unused

\* One call of route_ticket.  hub_log keeps, for every call of the
\* sequence, the ticket and what was returned for it.
RouteRequest ==
    /\ pc = "class"
    /\ processed < MaxRequests
    /\ \E t \in ClassTickets :
       \E r \in { route_ticket(managers, t, rr_counters, foreign_counter,
                                 NoCoords, NoCoords) } :
            /\ ticket' = t
            /\ decision' = [ manager |-> r.manager, office |-> r.office,
                             coords |-> r.coords, rr_index |-> r.rr_index ]
            /\ trace' = [ branch |-> r.target.branch,
                          selected |-> r.target.office,
                          eligible |-> r.eligible, rr_key |-> r.rr_key ]
            /\ rr_counters' = r.rr_counters
            /\ foreign_counter' = r.foreign_counter
            /\ hub_log' = Append(hub_log, [ ticket |-> t, manager |-> r.manager,
                                            office |-> r.office,
                                            rr_index |-> r.rr_index ])
    /\ processed' = processed + 1
    /\ UNCHANGED <<managers, pc, run_size, rr, threads>>

SpecClass == InitClass /\ [][RouteRequest]_vars

\* The eligibility class of a request: the office it is assigned at, whether
\* its segment is VIP or Priority, whether it is a data change, its language
\* bucket (KZ, ENG, anything else RU) and whether its tone is negative.
ClassOf(office, t) ==
    << office,
       t.segment \in {"VIP", "Priority"},
       t.ticket_type = "Smena dannyh",
       IF t.language \in {"KZ", "ENG"} THEN t.language ELSE "RU",
       t.sentiment = "Negativnyj" >>

\* C14: the counter a request reads and advances is the counter of its
\* class (assigned office, priority flag, data-change flag, language
\* bucket, negative-tone flag): requests of one class share it, requests of
\* different classes leave it alone, and a language other than KZ and ENG
\* falls into the RU bucket.
CounterOfClass ==
    [][ (processed' = processed + 1 /\ decision'.manager # 0)
        => LET k == ClassOf(decision'.office, ticket')
           IN /\ decision'.rr_index
                    = CounterGet(rr_counters, k) % Len(trace'.eligible)
              /\ rr_counters' =
                    CounterSet(rr_counters, k, CounterGet(rr_counters, k) + 1)
              /\ DOMAIN rr_counters' \subseteq
                    { ClassOf(hub_log'[j].office, hub_log'[j].ticket) :
                        j \in 1..Len(hub_log') } ]_vars

\* A RU request and then a request in an unknown language, same office and
\* flags otherwise: the second is given the next index of the same counter.
CounterOfClassWitness ==
    /\ Len(hub_log) = 2
    /\ hub_log[1].ticket.language = "RU"
    /\ hub_log[2].ticket.language = "DE"
    /\ ClassOf(hub_log[1].office, hub_log[1].ticket)
         = ClassOf(hub_log[2].office, hub_log[2].ticket)
    /\ hub_log[1].rr_index = 0
    /\ hub_log[2].rr_index = 1
    /\ DOMAIN rr_counters = { ClassOf(hub_log[1].office, hub_log[1].ticket) }

-----------------------------------------------------------------------------
(* assign_manager called with a pool that is free to change from call to   *)
(* call, the empty pool included, from the counters as a reset leaves      *)
(* them.                                                                   *)

\* rr: per key the calls that returned a manager since the last reset and
\* the size of the pool of the last call (-1: no call yet).
InitAssign ==
    /\ rr = [ assigned |-> [ k \in RRKeys |-> 0 ],
              size |-> [ k \in RRKeys |-> -1 ],
              calls |-> 0 ]
    /\ rr_counters = EmptyCounters
    /\ foreign_counter \in 0..MaxCounter
    /\ managers = Unused
    /\ pc = "assign"
    /\ processed = 0
    /\ run_size = 0
    /\ ticket = NoTicket
    /\ decision = NoDecision
    /\ trace = NoTrace
    /\ hub_log = <<>>
    /\ threads = Unused

\* One call assign_manager(eligible, rr_key) with a pool of n managers.
\* decision keeps what it returned, trace the key, the size of the pool, the
\* size of the pool of the previous call of the key and the counter found.
AssignAnyPool ==
    /\ rr.calls < MaxCalls
    /\ \E k \in RRKeys, n \in 0..MaxPool :
       \E r \in { assign_manager(Indices(n), k, rr_counters) } :
            /\ rr_counters' = r.rr_counters
            /\ decision' = [ manager |-> r.manager, rr_index |-> r.rr_index ]
            /\ trace' = [ branch |-> None, rr_key |-> k, size |-> n,
                          previous |-> rr.size[k],
                          before |-> CounterGet(rr_counters, k) ]
            /\ rr' = [ rr EXCEPT !.assigned[k] = IF r.manager # 0 THEN @ + 1 ELSE @,
                                 !.size[k] = n,
                                 !.calls = @ + 1 ]
    /\ UNCHANGED <<managers, foreign_counter, pc, processed, run_size, ticket,
                   hub_log, threads>>

\* reset_counters()
ResetAssign ==
    /\ reset_counters
    /\ rr' = [ rr EXCEPT !.assigned = [ k \in RRKeys |-> 0 ],
                         !.size = [ k \in RRKeys |-> -1 ] ]
    /\ decision' = NoDecision
    /\ trace' = NoTrace
    /\ UNCHANGED <<managers, pc, processed, run_size, ticket, hub_log, threads>>

SpecAssign == InitAssign /\ [][AssignAnyPool \/ ResetAssign]_vars

\* C15: a call of assign_manager with a non-empty pool and key K returns
\* index counter[K] mod the size of the pool of that call and adds one to
\* counter[K], whatever the size and whatever the size was before; the
\* other counters and the shared counter stay; so counter[K] is the number
\* of assignments made under K since the last reset, and between resets it
\* never decreases.
CounterCountsAssignments ==
    [][ /\ (rr'.calls = rr.calls + 1 /\ trace'.size > 0) =>
              LET k == trace'.rr_key
              IN /\ decision'.rr_index = CounterGet(rr_counters, k) % trace'.size
                 /\ decision'.manager = Indices(trace'.size)[decision'.rr_index + 1]
                 /\ CounterGet(rr_counters', k) = CounterGet(rr_counters, k) + 1
                 /\ \A j \in RRKeys \ {k} :
                        CounterGet(rr_counters', j) = CounterGet(rr_counters, j)
                 /\ foreign_counter' = foreign_counter
        /\ rr'.calls = rr.calls + 1 =>
              \A j \in RRKeys : CounterGet(rr_counters', j) >= CounterGet(rr_counters, j)
        /\ \A j \in RRKeys : CounterGet(rr_counters', j) = rr'.assigned[j] ]_vars

\* A key served from a pool of three and then from a pool of two, at a
\* counter value where the two sizes give different indices.
CounterCountsAssignmentsWitness ==
    /\ pc = "assign"
    /\ decision # NoDecision
    /\ trace.previous = 3
    /\ trace.size = 2
    /\ trace.before = 2
    /\ decision.rr_index = 0
    /\ CounterGet(rr_counters, trace.rr_key) = 3
    /\ foreign_counter > 0

-----------------------------------------------------------------------------
(* Properties of run_pipeline, stated on the runs of Spec.                 *)

\* C16: every run starts from reset counters, before it routes a request:
\* no per-class counter and the shared counter 0, whatever earlier runs
\* left; so the first foreign or unresolved request of a run is selected
\* for Astana, and the first assignment of a class in a run is made at
\* counter value 0.
RunStartsReset ==
    /\ (pc = "idle" /\ run_size = 0) =>
          (rr_counters = EmptyCounters /\ foreign_counter = 0)
    /\ Len(hub_log) >= 1 => hub_log[1].selected = "Astana"
    /\ (pc = "routed" /\ decision.manager # 0) =>
          LET k == ClassOf(decision.office, ticket)
          IN /\ CounterGet(rr_counters, k) = 1 => decision.rr_index = 0
             /\ run_size = 1 => rr_counters = CounterSet(EmptyCounters, k, 1)

\* The first request of a second run: it is sent to Astana by the hub rule
\* and assigned at index 0, after an earlier run that assigned a manager.
RunStartsResetWitness ==
    /\ pc = "routed"
    /\ processed = 2
    /\ run_size = 1
    /\ Len(hub_log) = 1
    /\ hub_log[1].selected = "Astana"
    /\ decision.manager # 0
    /\ decision.rr_index = 0
    /\ \E i \in 1..Len(managers) :
          /\ managers[i].position = "Vedushchij specialist"
          /\ managers[i].current_load = 1

----------------------------------------------------------------------------
\* filter_managers as a function of the roster and of the request.

\* The number of managers of a roster handed to filter_managers.
FilterRoster == 3

\* The rows of those rosters: the three tiers, with and without the skills
\* the hard filters ask for, at loads that differ from the roster order.
FilterProfiles ==
    { Manager("Almaty", "Specialist", {}, 0),
      Manager("Almaty", "Specialist", {"VIP", "KZ", "ENG"}, 1),
      Manager("Almaty", "Vedushchij specialist", {"KZ"}, 1),
      Manager("Almaty", "Vedushchij specialist", {"VIP", "ENG"}, 2),
      Manager("Almaty", "Glavnyj specialist", {"VIP", "KZ"}, 0),
      Manager("Almaty", "Glavnyj specialist", {"ENG"}, 2),
      Manager("Astana", "Glavnyj specialist", {"VIP", "KZ", "ENG"}, 0) }

FilterRosters == [ 1..FilterRoster -> FilterProfiles ]

\* The arguments of a call besides the roster; limit is None or the
\* default 2.
FilterInputs ==
    [ office : {"Almaty", "Astana"},
      segment : {"Mass", "VIP", "Priority"},
      ticket_type : {"Konsultaciya", "Smena dannyh"},
      language : {"RU", "KZ", "ENG", "DE"},
      sentiment : {"Nejtralnyj", "Negativnyj"},
      limit : {NoLimit, 2} ]

InitFilter ==
    /\ managers \in FilterRosters
    /\ ticket \in FilterInputs
    /\ pc = "filter"
    /\ rr_counters = EmptyCounters
    /\ foreign_counter = 0
    /\ processed = 0
    /\ run_size = 0
    /\ decision = NoDecision
    /\ trace = NoTrace
    /\ hub_log = <<>>
    /\ rr = Unused
    /\ threads = Unused

\* One call filter_managers(managers, office, segment, ticket_type,
\* language, sentiment, limit); trace keeps the list it returned.
FilterCall ==
    /\ pc = "filter"
    /\ \E r \in { filter_managers(managers, ticket.office, ticket.segment,
                                  ticket.ticket_type, ticket.language,
                                  ticket.sentiment, ticket.limit) } :
          trace' = [ branch |-> None, eligible |-> r ]
    /\ pc' = "filtered"
    /\ UNCHANGED <<managers, rr_counters, foreign_counter, processed, run_size,
                   ticket, decision, hub_log, rr, threads>>

SpecFilter == InitFilter /\ [][FilterCall]_vars

\* Senior tier or above.
IsSenior(m) == m.position \in {"Vedushchij specialist", "Glavnyj specialist"}

\* The managers of S by workload ascending, equal workloads in roster order.
RECURSIVE OrderedByLoad(_, _)
OrderedByLoad(ms, S) ==
    IF S = {} THEN <<>>
    ELSE LET first ==
                 CHOOSE i \in S : \A j \in S :
                     \/ ms[i].current_load < ms[j].current_load
                     \/ ms[i].current_load = ms[j].current_load /\ i <= j
         IN <<first>> \o OrderedByLoad(ms, S \ {first})

\* C17: for a negative request filter_managers returns the senior managers
\* of the hard-filtered, load-sorted pool if and only if there is one, and
\* the whole pool otherwise; the preference is taken after sorting and
\* before truncation, so a non-empty pool never becomes empty; for any other
\* tone the whole pool is kept.
SeniorPreferredWhenNegative ==
    pc = "filtered" =>
        LET full == OrderedByLoad(managers, EligibleAt(managers, ticket.office, ticket))
            seniors == SelectSeq(full, LAMBDA i : IsSenior(managers[i]))
            applied == ticket.sentiment = "Negativnyj" /\ seniors # <<>>
            kept == IF applied THEN seniors ELSE full
        IN /\ trace.eligible =
                  (IF ticket.limit = NoLimit THEN kept ELSE Take(kept, ticket.limit))
           /\ full # <<>> => trace.eligible # <<>>
           /\ ticket.sentiment # "Negativnyj" =>
                  trace.eligible =
                      (IF ticket.limit = NoLimit THEN full ELSE Take(full, ticket.limit))

\* A negative request with the default limit whose two least loaded eligible
\* managers are not senior and whose third is: the senior one is returned.
SeniorPreferredWhenNegativeWitness ==
    /\ pc = "filtered"
    /\ ticket.sentiment = "Negativnyj"
    /\ ticket.limit = 2
    /\ Cardinality(EligibleAt(managers, ticket.office, ticket)) = 3
    /\ ~IsSenior(managers[1])
    /\ ~IsSenior(managers[2])
    /\ IsSenior(managers[3])
    /\ managers[3].current_load > managers[1].current_load
    /\ managers[3].current_load > managers[2].current_load
    /\ trace.eligible = <<3>>

\* C18: with truncation disabled and a tone other than negative,
\* filter_managers returns exactly the managers of the office that pass
\* every hard filter, each once, by workload ascending and with equal
\* workloads in roster order.
HardFilteredSortedPool ==
    (pc = "filtered" /\ ticket.limit = NoLimit /\ ticket.sentiment # "Negativnyj") =>
        LET r == trace.eligible
        IN /\ { r[i] : i \in 1..Len(r) } = EligibleAt(managers, ticket.office, ticket)
           /\ \A i, j \in 1..Len(r) : i < j =>
                  \/ managers[r[i]].current_load < managers[r[j]].current_load
                  \/ /\ managers[r[i]].current_load = managers[r[j]].current_load
                     /\ r[i] < r[j]

\* Three eligible managers returned in an order that is not the roster's,
\* the two of equal workload in roster order, to a request in Kazakh.
HardFilteredSortedPoolWitness ==
    /\ pc = "filtered"
    /\ ticket.limit = NoLimit
    /\ ticket.sentiment = "Nejtralnyj"
    /\ ticket.language = "KZ"
    /\ trace.eligible = <<2, 1, 3>>
    /\ managers[1].current_load = managers[3].current_load
    /\ managers[2].current_load < managers[1].current_load

----------------------------------------------------------------------------
\* The workloads during one run of run_pipeline.  rr keeps the workloads
\* the run started with, hub_log what route_ticket returned for every
\* request of the run so far.

InitLoad ==
    /\ managers \in Rosters
    /\ rr = [ start |-> [ i \in 1..NumManagers |-> managers[i].current_load ] ]
    /\ rr_counters = EmptyCounters
    /\ foreign_counter = 0
    /\ pc = "pending"
    /\ processed = 0
    /\ run_size = 0
    /\ ticket = NoTicket
    /\ decision = NoDecision
    /\ trace = NoTrace
    /\ hub_log = <<>>
    /\ threads = Unused

\* route_ticket on the next pending request of the run.
RouteLoad ==
    /\ pc = "pending"
    /\ processed < MaxRequests
    /\ \E t \in ClassTickets :
       \E r \in { route_ticket(managers, t, rr_counters, foreign_counter,
                                 NoCoords, NoCoords) } :
            /\ ticket' = t
            /\ decision' = [ manager |-> r.manager, office |-> r.office,
                             coords |-> r.coords, rr_index |-> r.rr_index ]
            /\ rr_counters' = r.rr_counters
            /\ foreign_counter' = r.foreign_counter
            /\ hub_log' = Append(hub_log, [ manager |-> r.manager ])
    /\ pc' = "persist"
    /\ processed' = processed + 1
    /\ UNCHANGED <<managers, run_size, trace, rr, threads>>

\* The request is persisted: the assignment, if any, and the load.
PersistLoad ==
    /\ pc = "persist"
    /\ managers' = IncrementLoad(managers, decision.manager)
    /\ pc' = "pending"
    /\ run_size' = run_size + 1
    /\ ticket' = NoTicket
    /\ decision' = NoDecision
    /\ UNCHANGED <<rr_counters, foreign_counter, processed, trace, hub_log,
                   rr, threads>>

SpecLoad == InitLoad /\ [][RouteLoad \/ PersistLoad]_vars

\* C19: after any prefix of a run the workload of every manager is the
\* workload the run started with plus the number of requests of the prefix
\* assigned to that manager; a request left unassigned changes no workload.
WorkloadCountsAssignments ==
    pc \in {"pending", "persist"} =>
        \A i \in 1..Len(managers) :
            managers[i].current_load
                = rr.start[i]
                  + Cardinality({ j \in 1..run_size : hub_log[j].manager = i })

\* Two requests persisted, the first assigned to a manager, the second left
\* unassigned.
WorkloadCountsAssignmentsWitness ==
    /\ pc = "pending"
    /\ run_size = 2
    /\ hub_log[1].manager # 0
    /\ hub_log[2].manager = 0
    /\ managers[hub_log[1].manager].current_load
           = rr.start[hub_log[1].manager] + 1

----------------------------------------------------------------------------
\* The rate limiting of _twogis_geocode with an API key configured, calls
\* made one after another.  Time is counted in hundredths of a second.
\* rr.now is time.monotonic(), rr.TWOGIS_LAST_CALL the module variable;
\* hub_log keeps, for every request sent to the provider, the time it was
\* sent at and how it ended.

\* _TWOGIS_MIN_INTERVAL = 0.25
TWOGIS_MIN_INTERVAL == 25

\* timeout=8.0 of httpx.get
TWOGIS_TIMEOUT == 800

\* The number of calls of _twogis_geocode of a behaviour.
MaxGeocodeCalls == 3

\* The time between two calls of _twogis_geocode, and the time the first
\* call is made at.
Pauses == {1, 10, 30}

\* How a request ends and the time it takes: "ok" is a successful reply,
\* "status" a reply raise_for_status raises on, "error" a failure to
\* connect, "timeout" no reply within the timeout.
Outcomes ==
    { [ outcome |-> "ok", took |-> 1 ],
      [ outcome |-> "ok", took |-> 30 ],
      [ outcome |-> "status", took |-> 1 ],
      [ outcome |-> "status", took |-> 30 ],
      [ outcome |-> "error", took |-> 1 ],
      [ outcome |-> "timeout", took |-> TWOGIS_TIMEOUT ] }

InitRate ==
    /\ rr \in [ now : Pauses, TWOGIS_LAST_CALL : {0} ]
    /\ hub_log = <<>>
    /\ processed = 0
    /\ pc = "geocode"
    /\ managers = Unused
    /\ rr_counters = EmptyCounters
    /\ foreign_counter = 0
    /\ run_size = 0
    /\ ticket = NoTicket
    /\ decision = NoDecision
    /\ trace = NoTrace
    /\ threads = Unused

\* The time of the request after the sleep: time.sleep(_TWOGIS_MIN_INTERVAL
\* - elapsed) if elapsed < _TWOGIS_MIN_INTERVAL.
SentAt(now, last_call) ==
    LET elapsed == now - last_call
    IN IF elapsed < TWOGIS_MIN_INTERVAL
       THEN now + (TWOGIS_MIN_INTERVAL - elapsed)
       ELSE now

\* One call _twogis_geocode(query): the sleep, the request, and
\* _TWOGIS_LAST_CALL = time.monotonic() once the reply has passed
\* raise_for_status; an exception of httpx.get or of raise_for_status
\* leaves _TWOGIS_LAST_CALL as it was.
TwogisGeocode ==
    /\ pc = "geocode"
    /\ processed < MaxGeocodeCalls
    /\ \E o \in Outcomes :
       \E sent \in { SentAt(rr.now, rr.TWOGIS_LAST_CALL) } :
            /\ hub_log' = Append(hub_log, [ at |-> sent, outcome |-> o.outcome ])
            /\ rr' = [ now |-> sent + o.took,
                       TWOGIS_LAST_CALL |->
                           IF o.outcome = "ok" THEN sent + o.took
                           ELSE rr.TWOGIS_LAST_CALL ]
    /\ processed' = processed + 1
    /\ pc' = "returned"
    /\ UNCHANGED <<managers, rr_counters, foreign_counter, run_size, ticket,
                   decision, trace, threads>>

\* The caller goes on to its next call of _twogis_geocode.
NextQuery ==
    /\ pc = "returned"
    /\ \E d \in Pauses : rr' = [ rr EXCEPT !.now = @ + d ]
    /\ pc' = "geocode"
    /\ UNCHANGED <<managers, rr_counters, foreign_counter, processed, run_size,
                   ticket, decision, trace, hub_log, threads>>

SpecRate == InitRate /\ [][TwogisGeocode \/ NextQuery]_vars

\* C20: any two successive requests sent to the provider are at least
\* _TWOGIS_MIN_INTERVAL apart, whatever the earlier calls ended with.
RequestsSeparated ==
    pc \in {"geocode", "returned"} =>
        \A j \in 2..Len(hub_log) :
            hub_log[j].at - hub_log[j - 1].at >= TWOGIS_MIN_INTERVAL

----------------------------------------------------------------------------
\* geocode_client as a function of the request, of whether an API key is
\* configured and of how the provider answers the two queries.

\* Coordinates the provider can return: the corners of the bounding box,
\* the points one step (1e-4 degree) outside each of its sides, a point of
\* the gazetteer and a point abroad.
ProviderPoints ==
    { <<KZ_LAT_MIN, KZ_LON_MIN>>, <<KZ_LAT_MAX, KZ_LON_MAX>>,
      <<KZ_LAT_MIN - 1, 600000>>, <<KZ_LAT_MAX + 1, 600000>>,
      <<450000, KZ_LON_MIN - 1>>, <<450000, KZ_LON_MAX + 1>>,
      KZ_CITY_COORDS["Arkalyk"], MoscowPoint }

\* How a request to the provider can end.
ProviderOutcomes ==
    { [ kind |-> k, point |-> NoCoords ] :
        k \in {"error", "timeout", "status", "no_items", "no_point"} }
    \cup { [ kind |-> "point", point |-> p ] : p \in ProviderPoints }

GeoQueries ==
    [ country : {None, "Kazakhstan"},
      city : {None, "", "Almaty", "lat:astana", "Priozersk", "Neizvestno"},
      region : {None, "", "Priozersk", "Astona", "Zhambylskaya oblast",
                "Neizvestno", "Kokpek", "Kokpe"} ]

InitGeo ==
    /\ ticket \in GeoQueries
    /\ rr \in [ api_key : BOOLEAN, outcome1 : ProviderOutcomes,
                outcome2 : ProviderOutcomes ]
    /\ pc = "resolve"
    /\ managers = Unused
    /\ rr_counters = EmptyCounters
    /\ foreign_counter = 0
    /\ processed = 0
    /\ run_size = 0
    /\ decision = NoDecision
    /\ trace = NoTrace
    /\ hub_log = <<>>
    /\ threads = Unused

\* One call geocode_client(city, region, country); trace keeps what it
\* returned and the remote queries it issued.
ResolveLocation ==
    /\ pc = "resolve"
    /\ \E r \in { geocode_client(ticket.city, ticket.region, ticket.country,
                                 twogis_geocode(rr.api_key, rr.outcome1),
                                 twogis_geocode(rr.api_key, rr.outcome2)) } :
          trace' = [ branch |-> None, coords |-> r,
                     queries |-> queries_issued(
                                     ticket.city, ticket.region,
                                     twogis_geocode(rr.api_key, rr.outcome1)) ]
    /\ pc' = "resolved"
    /\ UNCHANGED <<managers, rr_counters, foreign_counter, processed, run_size,
                   ticket, decision, hub_log, rr, threads>>

SpecGeo == InitGeo /\ [][ResolveLocation]_vars

\* What the gazetteer strategies give for the regions of GeoQueries.
GazetteerOf(region) ==
    CASE region = "Priozersk" -> KZ_CITY_COORDS["Priozersk"]
      [] region = "Astona" -> KZ_CITY_COORDS["Astana"]
      [] region = "Zhambylskaya oblast" -> KZ_CITY_COORDS["Zhambylskaya"]
      [] region \in {"Kokpek", "Kokpe"} -> KZ_CITY_COORDS["Kokpek"]
      [] OTHER -> NoCoords

\* The point the provider returned for a query that was sent, if any.
Returned(asked, outcome) ==
    IF asked /\ rr.api_key /\ outcome.kind = "point"
    THEN outcome.point ELSE NoCoords

\* lat 40.5..55.5, lon 50.2..87.4
InsideCountry(p) ==
    /\ p # NoCoords
    /\ 405000 <= p[1] /\ p[1] <= 555000
    /\ 502000 <= p[2] /\ p[2] <= 874000

\* C21: a coordinate of the provider outside the bounding box is never
\* returned: it is discarded for the city query and for the region query,
\* and the next strategy is tried.
OutsideBoxDiscarded ==
    pc = "resolved" =>
        LET p1 == Returned(Truthy(ticket.city), rr.outcome1)
            p2 == Returned(Truthy(ticket.region), rr.outcome2)
        IN trace.coords =
               (IF InsideCountry(p1) THEN p1
                ELSE IF InsideCountry(p2) THEN p2
                ELSE GazetteerOf(ticket.region))

\* Both queries answered with a point just outside the box, the region in
\* the gazetteer: the gazetteer's coordinate is returned.
OutsideBoxDiscardedWitness ==
    /\ pc = "resolved"
    /\ rr.api_key
    /\ Truthy(ticket.city)
    /\ rr.outcome1 = [ kind |-> "point", point |-> <<450000, KZ_LON_MAX + 1>> ]
    /\ rr.outcome2 = [ kind |-> "point", point |-> <<KZ_LAT_MIN - 1, 600000>> ]
    /\ ticket.region = "Priozersk"
    /\ trace.coords = KZ_CITY_COORDS["Priozersk"]

\* C22: the provider never makes geocode_client fail: without a key, or
\* when every request that is sent fails, times out or brings no item, the
\* result is that of the gazetteer strategies, null if they find nothing.
ProviderFailureDegrades ==
    pc = "resolved" =>
        LET failed(o) == o.kind # "point"
        IN /\ (\/ ~rr.api_key
               \/ /\ Truthy(ticket.city) => failed(rr.outcome1)
                  /\ Truthy(ticket.region) => failed(rr.outcome2))
              => trace.coords = GazetteerOf(ticket.region)
           /\ trace.coords = NoCoords \/ Len(trace.coords) = 2

\* No key is configured although the provider would have answered, and the
\* region is found in the gazetteer by a close match.
ProviderFailureDegradesWitness ==
    /\ pc = "resolved"
    /\ ~rr.api_key
    /\ Truthy(ticket.city)
    /\ rr.outcome1.kind = "point"
    /\ InsideCountry(rr.outcome1.point)
    /\ ticket.region = "Astona"
    /\ trace.coords = KZ_CITY_COORDS["Astana"]

\* C23: without a key, a request whose city is a key of the gazetteer and
\* whose region is absent resolves to the coordinate of that key.
CityGazetteerExact ==
    (/\ pc = "resolved"
     /\ ~rr.api_key
     /\ ticket.city \in DOMAIN KZ_CITY_COORDS
     /\ ~Truthy(ticket.region))
        => trace.coords = KZ_CITY_COORDS[ticket.city]

----------------------------------------------------------------------------
\* Calls of geocode_client with no API key configured, with requests routed
\* and persisted in between.  rr.TWOGIS_MISSING_KEY_WARNED is the module
\* variable; hub_log keeps every call of geocode_client with what it
\* returned and the rotation state and the roster it was made in.

\* The number of steps of a behaviour.
MaxHistory == 3

HistQueries ==
    { [ country |-> "Kazakhstan", city |-> "Almaty", region |-> None ],
      [ country |-> "Kazakhstan", city |-> "Neizvestno", region |-> "Priozersk" ],
      [ country |-> None, city |-> None, region |-> "Astona" ],
      [ country |-> None, city |-> "lat:astana", region |-> "Zhambylskaya oblast" ],
      [ country |-> "lat:Russia", city |-> None, region |-> "Neizvestno" ],
      [ country |-> None, city |-> None, region |-> None ] }

HistOutcomes ==
    { [ kind |-> "error", point |-> NoCoords ],
      [ kind |-> "point", point |-> KZ_CITY_COORDS["Arkalyk"] ] }

HistTickets ==
    { Ticket(loc, << "Mass", "Konsultaciya", "RU", "Nejtralnyj" >>) :
        loc \in LocationQueries }

InitHist ==
    /\ managers \in Rosters
    /\ rr = [ TWOGIS_MISSING_KEY_WARNED |-> FALSE ]
    /\ rr_counters = EmptyCounters
    /\ foreign_counter = 0
    /\ pc = "history"
    /\ processed = 0
    /\ run_size = 0
    /\ ticket = NoTicket
    /\ decision = NoDecision
    /\ trace = NoTrace
    /\ hub_log = <<>>
    /\ threads = Unused

\* One call geocode_client(city, region, country): the city query, then the
\* region query, each stopped by the missing key, then the gazetteer.
ResolveAgain ==
    /\ processed < MaxHistory
    /\ \E q \in HistQueries, o1 \in HistOutcomes, o2 \in HistOutcomes :
       \E a \in { IF Truthy(q.city)
                  THEN missing_key_return(rr.TWOGIS_MISSING_KEY_WARNED, o1)
                  ELSE [ coords |-> NoCoords,
                         warned |-> rr.TWOGIS_MISSING_KEY_WARNED ] } :
       \E b \in { IF /\ Truthy(q.region)
                     /\ ~(a.coords # NoCoords /\ in_kz_bbox(a.coords))
                  THEN missing_key_return(a.warned, o2)
                  ELSE [ coords |-> NoCoords, warned |-> a.warned ] } :
            /\ hub_log' = Append(hub_log,
                   [ query |-> q,
                     coords |-> geocode_client(q.city, q.region, q.country,
                                               a.coords, b.coords),
                     rr_counters |-> rr_counters,
                     foreign_counter |-> foreign_counter,
                     managers |-> managers ])
            /\ rr' = [ TWOGIS_MISSING_KEY_WARNED |-> b.warned ]
    /\ processed' = processed + 1
    /\ UNCHANGED <<managers, rr_counters, foreign_counter, pc, run_size,
                   ticket, decision, trace, threads>>

\* A request is routed and persisted between two calls: the counters and
\* the load of the assigned manager change; its own call of geocode_client,
\* if it comes to it, meets the missing key as well.
RouteBetween ==
    /\ processed < MaxHistory
    /\ \E t \in HistTickets :
       \E r \in { route_ticket(managers, t, rr_counters, foreign_counter,
                                 NoCoords, NoCoords) } :
            /\ rr_counters' = r.rr_counters
            /\ foreign_counter' = r.foreign_counter
            /\ managers' = IncrementLoad(managers, r.manager)
            /\ rr' = [ TWOGIS_MISSING_KEY_WARNED |->
                         \/ rr.TWOGIS_MISSING_KEY_WARNED
                         \/ /\ r.target.branch \notin {"foreign", "city"}
                            /\ Truthy(t.city) \/ Truthy(t.region) ]
    /\ processed' = processed + 1
    /\ run_size' = run_size + 1
    /\ UNCHANGED <<pc, ticket, decision, trace, hub_log, threads>>

SpecHist == InitHist /\ [][ResolveAgain \/ RouteBetween]_vars

\* C24: with no API key configured, two calls of geocode_client with the
\* same city, region and country return the same coordinate, or both null,
\* whatever was resolved or routed between them.
ResolutionHistoryIndependent ==
    pc = "history" =>
        \A i, j \in 1..Len(hub_log) :
            hub_log[i].query = hub_log[j].query
                => hub_log[i].coords = hub_log[j].coords

\* The same location resolved to the same coordinate before and after a
\* request was routed that changed the counters and a workload.
ResolutionHistoryIndependentWitness ==
    /\ pc = "history"
    /\ Len(hub_log) = 2
    /\ hub_log[1].query = hub_log[2].query
    /\ hub_log[1].coords # NoCoords
    /\ hub_log[1].coords = hub_log[2].coords
    /\ hub_log[1].rr_counters # hub_log[2].rr_counters
    /\ hub_log[1].managers # hub_log[2].managers

----------------------------------------------------------------------------
\* filter_managers and _office_load on rosters with incomplete records.
\* A missing office or position is None or "".  The filters read the
\* skills as `m.skills and "VIP" in m.skills`: None and the empty list fail
\* it alike, and {} stands for both.

\* The number of managers of such a roster.
StaffRoster == 3

StaffProfiles ==
    { Manager(None, "Glavnyj specialist", {"VIP", "KZ", "ENG"}, 1),
      Manager("", "Vedushchij specialist", {"VIP", "KZ", "ENG"}, 0),
      Manager("Almaty", None, {"VIP", "KZ", "ENG"}, 1),
      Manager("Almaty", "Glavnyj specialist", {}, 0),
      Manager("Almaty", "Glavnyj specialist", {"VIP", "KZ", "ENG"}, 2),
      Manager("Astana", "", {"KZ"}, 1) }

StaffRosters == [ 1..StaffRoster -> StaffProfiles ]

\* office None or "" is the call without a target office.
StaffInputs ==
    [ office : {None, "", "Almaty", "Astana"},
      segment : {"Mass", "VIP"},
      ticket_type : {"Konsultaciya", "Smena dannyh"},
      language : {"RU", "KZ", "ENG"},
      sentiment : {"Nejtralnyj", "Negativnyj"},
      limit : {NoLimit, 2} ]

InitStaff ==
    /\ managers \in StaffRosters
    /\ ticket \in StaffInputs
    /\ pc = "staff"
    /\ rr_counters = EmptyCounters
    /\ foreign_counter = 0
    /\ processed = 0
    /\ run_size = 0
    /\ decision = NoDecision
    /\ trace = NoTrace
    /\ hub_log = <<>>
    /\ rr = Unused
    /\ threads = Unused

\* One call of filter_managers and one of _office_load for every office;
\* trace keeps what they returned.
FilterStaff ==
    /\ pc = "staff"
    /\ \E r \in { filter_managers(managers, ticket.office, ticket.segment,
                                  ticket.ticket_type, ticket.language,
                                  ticket.sentiment, ticket.limit) } :
          trace' = [ branch |-> None, eligible |-> r,
                     loads |-> [ o \in Offices |-> office_load(managers, o) ] ]
    /\ pc' = "staffed"
    /\ UNCHANGED <<managers, rr_counters, foreign_counter, processed, run_size,
                   ticket, decision, hub_log, rr, threads>>

SpecStaff == InitStaff /\ [][FilterStaff]_vars

\* C25: a manager without an office is in no pool, with a target office or
\* without one, and adds to no office's load; a manager without the skills
\* or the position a filter asks for is left out by that filter.
IncompleteStaffExcluded ==
    pc = "staffed" =>
        /\ \A k \in 1..Len(trace.eligible) :
              LET m == managers[trace.eligible[k]]
              IN /\ m.office \notin {None, ""}
                 /\ Truthy(ticket.office) => m.office = ticket.office
                 /\ ticket.segment = "VIP" => "VIP" \in m.skills
                 /\ ticket.language \in {"KZ", "ENG"} => ticket.language \in m.skills
                 /\ ticket.ticket_type = "Smena dannyh"
                        => m.position = "Glavnyj specialist"
        /\ \A o \in Offices :
              trace.loads[o]
                  = office_load(SelectSeq(managers,
                                          LAMBDA m : m.office \notin {None, ""}),
                                o)

\* A call without a target office on a roster of one complete manager, one
\* without office and one without position, for a request that needs a
\* chief specialist: the complete manager alone is returned, and the load
\* of the manager without office is in no office's load.
IncompleteStaffExcludedWitness ==
    /\ pc = "staffed"
    /\ ~Truthy(ticket.office)
    /\ ticket.ticket_type = "Smena dannyh"
    /\ managers[1].office = None
    /\ managers[1].current_load > 0
    /\ managers[2].position = None
    /\ managers[3] = Manager("Almaty", "Glavnyj specialist", {"VIP", "KZ", "ENG"}, 2)
    /\ trace.eligible = <<3>>
    /\ trace.loads["Almaty"] = 3
    /\ \A o \in Offices : o # "Almaty" => trace.loads[o] = 0

----------------------------------------------------------------------------
\* route_ticket step by step: the call of get_target_office and the first
\* filter_managers, the iterations of the fallback loop, and the
\* assignment.  trace keeps the local variables office, eligible and
\* fallback_idx, hub_log the offices the loop called filter_managers for.

\* The rosters of this section: those of Rosters, their first rows alone,
\* and the empty roster.
LoopRosters ==
    Rosters \cup { <<ms[1]>> : ms \in Rosters } \cup { <<>> }

\* fallback_idx without its increment.
NextFallbackIdx_stuck(fallback_idx) == fallback_idx

\* fallback_idx += 1
NextFallbackIdx(fallback_idx) == fallback_idx + 1

InitLoop ==
    /\ managers \in LoopRosters
    /\ ticket \in Tickets
    /\ foreign_counter \in 0..MaxCounter
    /\ rr_counters = EmptyCounters
    /\ pc = "call"
    /\ processed = 0
    /\ run_size = 0
    /\ decision = NoDecision
    /\ trace = NoTrace
    /\ hub_log = <<>>
    /\ rr = Unused
    /\ threads = Unused

\* office, lat, lon = get_target_office(...);
\* eligible = filter_managers(managers, office, ...); fallback_idx = 0
EnterRoute ==
    /\ pc = "call"
    /\ \E reply1 \in TwogisReplies(ticket.city),
          reply2 \in TwogisReplies(ticket.region) :
       \E target \in { get_target_office(ticket.country, ticket.city,
                                         ticket.region, managers,
                                         foreign_counter, reply1, reply2) } :
            /\ trace' = [ branch |-> target.branch,
                          selected |-> target.office,
                          coords |-> target.coords,
                          office |-> target.office,
                          eligible |-> filter_managers(managers, target.office,
                                           ticket.segment, ticket.ticket_type,
                                           ticket.language, ticket.sentiment, 2),
                          fallback_idx |-> 0 ]
            /\ foreign_counter' = target.foreign_counter
    /\ pc' = "loop"
    /\ UNCHANGED <<managers, rr_counters, processed, run_size, ticket,
                   decision, hub_log, rr, threads>>

\* One iteration of
\* while not eligible and fallback_idx < len(fallback_offices)
LoopStep ==
    /\ pc = "loop"
    /\ trace.eligible = <<>>
    /\ trace.fallback_idx < Len(fallback_offices)
    /\ LET fallback == fallback_offices[trace.fallback_idx + 1]
           found == filter_managers(managers, fallback, ticket.segment,
                                    ticket.ticket_type, ticket.language,
                                    ticket.sentiment, 2)
       IN IF fallback # trace.office
          THEN /\ trace' = [ trace EXCEPT
                               !.eligible = found,
                               !.office = IF found # <<>> THEN fallback ELSE @,
                               !.fallback_idx = NextFallbackIdx(@) ]
               /\ hub_log' = Append(hub_log, fallback)
          ELSE /\ trace' = [ trace EXCEPT
                               !.fallback_idx = NextFallbackIdx(@) ]
               /\ hub_log' = hub_log
    /\ processed' = processed + 1
    /\ UNCHANGED <<managers, rr_counters, foreign_counter, pc, run_size,
                   ticket, decision, rr, threads>>

\* The loop is left: build_rr_key, assign_manager, return.
ReturnDecision ==
    /\ pc = "loop"
    /\ ~(trace.eligible = <<>> /\ trace.fallback_idx < Len(fallback_offices))
    /\ \E a \in { assign_manager(trace.eligible,
                      build_rr_key(trace.office,
                                   ticket.segment \in {"VIP", "Priority"},
                                   ticket.ticket_type = "Smena dannyh",
                                   ticket.language,
                                   ticket.sentiment = "Negativnyj"),
                      rr_counters) } :
          /\ decision' = [ manager |-> a.manager, office |-> trace.office,
                           coords |-> trace.coords, rr_index |-> a.rr_index ]
          /\ rr_counters' = a.rr_counters
    /\ pc' = "returned"
    /\ UNCHANGED <<managers, foreign_counter, processed, run_size, ticket,
                   trace, hub_log, rr, threads>>

NextLoop == EnterRoute \/ LoopStep \/ ReturnDecision

\* The call runs on until it returns.
SpecLoop == InitLoop /\ [][NextLoop]_vars /\ WF_vars(NextLoop)

\* C26: route_ticket is total: whatever the roster, the location and the
\* classification, the call returns a decision; the fallback loop asks every
\* hub at most once; a location that cannot be resolved is decided for a
\* hub, and pools empty everywhere give a decision without manager.
RouteTicketTotal ==
    /\ []( /\ pc \in {"loop", "returned"} =>
                 /\ trace.fallback_idx \in 0..Len(fallback_offices)
                 /\ processed = trace.fallback_idx
                 /\ Len(hub_log) <= trace.fallback_idx
                 /\ \A i \in 1..Len(hub_log) : hub_log[i] \in Hubs
                 /\ \A i, j \in 1..Len(hub_log) : i # j => hub_log[i] # hub_log[j]
                 /\ trace.branch = "unresolved" => trace.selected \in Hubs
           /\ pc = "returned" =>
                 /\ decision.office \in Offices
                 /\ decision.manager \in 0..Len(managers)
                 /\ decision.manager = 0 <=>
                        \A o \in Hubs \cup {trace.selected} :
                            EligibleAt(managers, o, ticket) = {} )
    /\ <>(pc = "returned")

\* The empty roster and a location that cannot be resolved: the decision
\* names a hub and no manager, after the loop asked the other hub once.
RouteTicketTotalWitness ==
    /\ pc = "returned"
    /\ managers = <<>>
    /\ trace.branch = "unresolved"
    /\ decision.manager = 0
    /\ decision.office = "Astana"
    /\ hub_log = << "Almaty" >>

----------------------------------------------------------------------------
\* find_sorted_offices, as get_target_office calls it on the coordinates
\* of a request.

\* C27: find_sorted_offices returns every office of the catalog once, with
\* its distance from the point, by distance ascending, so that its first
\* entry is a nearest office and its second a nearest of the others;
\* offices at the same distance come in the order of their names.
SortedOfficesComplete ==
    (pc = "selected" /\ trace.branch \in {"nearest", "equidistant"}) =>
        LET so == trace.nearest
            c == trace.coords
        IN /\ Len(so) = Cardinality(Offices)
           /\ \A o \in Offices :
                  Cardinality({ i \in 1..Len(so) : so[i][2] = o }) = 1
           /\ \A i \in 1..Len(so) : so[i][1] = haversine(c, so[i][2])
           /\ \A i \in 1..(Len(so) - 1) :
                  \/ so[i][1] < so[i + 1][1]
                  \/ /\ so[i][1] = so[i + 1][1]
                     /\ OfficeRank(so[i][2]) < OfficeRank(so[i + 1][2])
           /\ \A o \in Offices : so[1][1] <= haversine(c, o)
           /\ \A o \in Offices \ {so[1][2]} : so[2][1] <= haversine(c, o)

\* A point at the same distance of Almaty and of Taraz, its two nearest
\* offices: Almaty comes first.
SortedOfficesCompleteWitness ==
    /\ pc = "selected"
    /\ trace.branch = "equidistant"
    /\ trace.coords = TiePoint
    /\ trace.nearest[1] = << 232016, "Almaty" >>
    /\ trace.nearest[2] = << 232016, "Taraz" >>

----------------------------------------------------------------------------
\* A run of run_pipeline over a stream of requests of one eligibility
\* class and one location.  ticket is the request every ticket of the
\* stream repeats; rr keeps the workloads the run started with and the
\* number of requests assigned to every manager so far; trace the pool of
\* the last call of route_ticket.

\* The number of requests of the stream.
MaxStream == 20

StreamTickets ==
    { Ticket([ country |-> "Kazakhstan", city |-> "Almaty", region |-> None ],
             class) :
        class \in { << "Mass", "Konsultaciya", "RU", "Nejtralnyj" >>,
                    << "Mass", "Konsultaciya", "RU", "Negativnyj" >>,
                    << "VIP", "Konsultaciya", "KZ", "Nejtralnyj" >> } }

InitStream ==
    /\ managers \in FilterRosters
    /\ ticket \in StreamTickets
    /\ rr = [ start |-> [ i \in 1..FilterRoster |-> managers[i].current_load ],
              assigned |-> [ i \in 1..FilterRoster |-> 0 ] ]
    /\ rr_counters = EmptyCounters
    /\ foreign_counter = 0
    /\ pc = "stream"
    /\ processed = 0
    /\ run_size = 0
    /\ decision = NoDecision
    /\ trace = NoTrace
    /\ hub_log = <<>>
    /\ threads = Unused

\* route_ticket on the next request of the stream.
RouteStream ==
    /\ pc = "stream"
    /\ processed < MaxStream
    /\ \E r \in { route_ticket(managers, ticket, rr_counters, foreign_counter,
                                 NoCoords, NoCoords) } :
            /\ decision' = [ manager |-> r.manager, office |-> r.office,
                             coords |-> r.coords, rr_index |-> r.rr_index ]
            /\ trace' = [ branch |-> r.target.branch, eligible |-> r.eligible ]
            /\ rr_counters' = r.rr_counters
            /\ foreign_counter' = r.foreign_counter
            /\ rr' = [ rr EXCEPT !.assigned =
                         [ i \in 1..FilterRoster |->
                             IF i = r.manager THEN @[i] + 1 ELSE @[i] ] ]
    /\ pc' = "assigned"
    /\ processed' = processed + 1
    /\ UNCHANGED <<managers, run_size, ticket, hub_log, threads>>

\* The request is persisted and the load of its manager incremented.
PersistStream ==
    /\ pc = "assigned"
    /\ managers' = IncrementLoad(managers, decision.manager)
    /\ pc' = "stream"
    /\ run_size' = run_size + 1
    /\ UNCHANGED <<rr_counters, foreign_counter, processed, ticket, decision,
                   trace, hub_log, rr, threads>>

SpecStream == InitStream /\ [][RouteStream \/ PersistStream]_vars

\* The office the requests of the stream are decided for (the first of the
\* target office and the hubs in fallback order that has an eligible
\* manager) and the eligible pool of that office: the managers that pass
\* the hard filters, for a negative tone the senior ones of them if there
\* is one.
StreamPool ==
    LET target == OfficeOfCity[ticket.city]
        tried == <<target>> \o fallback_offices
        found == SelectSeq(tried, LAMBDA o : EligibleAt(managers, o, ticket) # {})
        office == IF found = <<>> THEN target ELSE found[1]
        hard == EligibleAt(managers, office, ticket)
        seniors == { i \in hard : IsSenior(managers[i]) }
    IN IF ticket.sentiment = "Negativnyj" /\ seniors # {} THEN seniors ELSE hard

\* C28: with exactly two eligible managers that start the run with the same
\* workload, the numbers of requests of the stream assigned to the two never
\* differ by more than 1.
TwoStaffRotationFair ==
    (/\ pc \in {"stream", "assigned"}
     /\ Cardinality(StreamPool) = 2
     /\ \A i, j \in StreamPool : rr.start[i] = rr.start[j])
        => \A i, j \in StreamPool :
               rr.assigned[i] - rr.assigned[j] \in {-1, 0, 1}

\* C29: the pool route_ticket assigns from has at most two members, the two
\* of lowest workload of the eligible pool at the moment of routing; the
\* rotation index of the decision is 0 or 1, and a manager outside the two
\* least loaded is not assigned.
TopTwoPool ==
    pc = "assigned" =>
        LET ordered == OrderedByLoad(managers, StreamPool)
            two == IF Len(ordered) <= 2 THEN ordered ELSE SubSeq(ordered, 1, 2)
            members == { two[k] : k \in 1..Len(two) }
        IN /\ Len(trace.eligible) <= 2
           /\ trace.eligible = two
           /\ decision.rr_index \in {0, 1}
           /\ decision.manager # 0 => decision.manager \in members
           /\ \A i \in StreamPool \ members : \A j \in members :
                  managers[j].current_load <= managers[i].current_load

\* Three eligible managers: the request goes to the second of the two least
\* loaded, and the third is not in the pool.
TopTwoPoolWitness ==
    /\ pc = "assigned"
    /\ Cardinality(StreamPool) = 3
    /\ Len(trace.eligible) = 2
    /\ decision.rr_index = 1
    /\ decision.manager = trace.eligible[2]
    /\ \E i \in StreamPool :
          /\ i \notin { trace.eligible[1], trace.eligible[2] }
          /\ managers[i].current_load > managers[decision.manager].current_load

\* A number of requests of the stream after which every manager of the pool
\* has had its turn: twice what the managers of the pool need to pass the
\* highest starting workload among them.
StarvationHorizon ==
    LET highest == CHOOSE h \in { rr.start[i] : i \in StreamPool } :
                       \A i \in StreamPool : rr.start[i] <= h
    IN IF StreamPool = {} THEN 0
       ELSE 2 * SumOver([ i \in StreamPool |-> highest - rr.start[i] + 1 ],
                        StreamPool)

\* C30: no starvation: in a stream of requests of one class decided for one
\* office, with the workloads incremented, every manager of the eligible
\* pool of the office is eventually assigned a request, although only the
\* two least loaded are in the pool of a call.
\* "Eventually" is checked with a horizon: every second request goes to
\* the least loaded manager of the pool, so a manager is reached once the
\* others have passed its workload.
EveryEligibleAssigned ==
    (pc \in {"stream", "assigned"} /\ processed >= StarvationHorizon)
        => \A i \in StreamPool : rr.assigned[i] > 0

\* Three eligible managers, one of them started above the two others and so
\* outside the first pools: all three have been assigned a request.
EveryEligibleAssignedWitness ==
    /\ pc = "stream"
    /\ Cardinality(StreamPool) = 3
    /\ processed >= StarvationHorizon
    /\ \A i \in StreamPool : rr.assigned[i] > 0
    /\ \E i \in StreamPool : \A j \in StreamPool \ {i} : rr.start[i] > rr.start[j] + 1

-----------------------------------------------------------------------------
(* Properties of route_ticket in a run (Spec): the office the key is built *)
(* from and the office and coordinates of the decision.                    *)

\* C31: when a request falls back from the selected office X to a hub H,
\* the counter read and advanced is the one of class (H, flags), the counter
\* a request routed to H directly with these flags uses, and no counter
\* keyed by X is created or changed.
FallbackKeyedByHub ==
    [][ (RouteStep /\ decision'.office # trace'.selected)
        => LET k == ClassOf(decision'.office, ticket')
           IN /\ decision'.office \in Hubs
              /\ decision'.manager # 0
              /\ decision'.rr_index
                    = CounterGet(rr_counters, k) % Len(trace'.eligible)
              /\ rr_counters' =
                    CounterSet(rr_counters, k, CounterGet(rr_counters, k) + 1)
              /\ \A key \in DOMAIN rr_counters' :
                    key[1] = trace'.selected
                    => /\ key \in DOMAIN rr_counters
                       /\ rr_counters'[key] = rr_counters[key] ]_vars

\* A request that fell back to a hub whose counter an earlier request of the
\* run had advanced: it is given the second index, and the run has no
\* counter of the office it was selected for.
FallbackKeyedByHubWitness ==
    /\ pc = "routed"
    /\ decision.office # trace.selected
    /\ decision.rr_index = 1
    /\ CounterGet(rr_counters, ClassOf(decision.office, ticket)) = 2
    /\ \A key \in DOMAIN rr_counters : key[1] # trace.selected

\* C32: the office of every routing decision is a catalog office, never
\* null; it differs from the office selected only when it is a hub that
\* yielded a non-empty pool, and when the selected office and both hubs are
\* empty the decision keeps the selected office; the coordinates returned
\* are those office selection computed (none under the hub rule, the
\* gazetteer entry of the office under the city shortcut, the resolved point
\* whose nearest offices were compared otherwise), whatever the fallback did.
DecisionOfficeAndCoords ==
    pc = "routed" =>
        /\ decision.office # None
        /\ decision.office \in Offices
        /\ decision.office # trace.selected
              => /\ decision.office \in Hubs
                 /\ trace.eligible # <<>>
                 /\ \A j \in 1..Len(trace.eligible) :
                        managers[trace.eligible[j]].office = decision.office
        /\ (\A o \in {trace.selected} \cup Hubs :
                EligibleAt(managers, o, ticket) = {})
              => /\ decision.office = trace.selected
                 /\ decision.manager = 0
        /\ IF trace.branch \in {"foreign", "unresolved"}
           THEN decision.coords = NoCoords
           ELSE IF trace.branch = "city"
           THEN decision.coords = KZ_CITY_COORDS[trace.selected]
           ELSE /\ decision.coords \in DOMAIN HaversineTable
                /\ trace.nearest = << << haversine(decision.coords,
                                                   NearestPair[decision.coords][1]),
                                         NearestPair[decision.coords][1] >>,
                                      << haversine(decision.coords,
                                                   NearestPair[decision.coords][2]),
                                         NearestPair[decision.coords][2] >> >>

\* A request left unassigned at a non-hub office after both hubs, one of
\* them staffed, were found empty: the decision keeps the selected office
\* and the coordinates of the resolved location.
DecisionOfficeAndCoordsWitness ==
    /\ pc = "routed"
    /\ trace.branch = "nearest"
    /\ trace.selected \notin Hubs
    /\ decision.manager = 0
    /\ decision.office = trace.selected
    /\ decision.coords # NoCoords
    /\ \E i \in 1..Len(managers) : managers[i].office \in Hubs

-----------------------------------------------------------------------------
(* The order of the rules of get_target_office (SpecTarget).               *)

\* C33: office selection applies its rules in order and the first match
\* wins: an explicitly non-domestic country goes to the hub of the shared
\* counter even if the city names a catalog office or the location is
\* resolvable; otherwise a city naming one office takes the shortcut
\* whatever the geocoder answers; the hub rule for unresolved locations and
\* the nearest / tie-break rule decide only when neither earlier rule
\* applies, the first when the location resolves to nothing and the second
\* when it resolves to a point.
RulesInOrder ==
    pc = "selected" =>
        LET explicit == ticket.country \notin NotForeignCountries
            named == ticket.city \in DOMAIN OfficeOfCity
            resolved == geocode_client(ticket.city, ticket.region,
                                       ticket.country, trace.reply1,
                                       trace.reply2)
        IN /\ explicit
              => /\ trace.branch = "foreign"
                 /\ trace.selected = HubFor(trace.before)
                 /\ trace.coords = NoCoords
                 /\ foreign_counter = trace.before + 1
           /\ (trace.branch # "foreign" /\ named)
              => /\ trace.branch = "city"
                 /\ trace.selected = OfficeOfCity[ticket.city]
           /\ trace.branch \in {"unresolved", "nearest", "equidistant"}
              => /\ ~explicit
                 /\ ~named
                 /\ trace.branch = "unresolved" <=> resolved = NoCoords
                 /\ trace.coords = resolved

\* A foreign country with the city of a catalog office and a region the
\* provider resolves inside the country: the hub of the counter, not the
\* office of the city, and no coordinates.
RulesInOrderWitness ==
    /\ pc = "selected"
    /\ ticket.country = "lat:Russia"
    /\ ticket.city = "Almaty"
    /\ ticket.region = "Priozersk"
    /\ trace.reply1 = ThresholdPoint
    /\ trace.reply2 = ThresholdPoint
    /\ trace.before = 2
    /\ trace.branch = "foreign"
    /\ trace.selected = "Astana"
    /\ trace.coords = NoCoords

-----------------------------------------------------------------------------
(* The order of the strategies of geocode_client (SpecGeo).                *)

-----------------------------------------------------------------------------
(* main.py: the endpoints POST /api/pipeline/run and /api/pipeline/reset,  *)
(* for any interleaving of requests and background tasks.  A handler runs  *)
(* in one step; the task _run that a start request schedules begins after  *)
(* the handler has returned.  The body of run_pipeline is kept as the      *)
(* number of analysis rows it has committed.                               *)
(* threads[i] is the position of the i-th start request: "waiting" (not    *)
(* yet sent), "refused", "accepted" (task scheduled), "running" (_run has  *)
(* set the flag), "ended".  rr is _pipeline_status, processed the number   *)
(* of analysis rows in the database, run_size the reset requests sent and  *)
(* decision the answer to the last of them.                                *)

MaxStarts == 3      \* start requests
MaxResets == 1      \* reset requests
MaxRows == 2        \* analysis rows the runs commit

InitStart ==
    /\ threads = [ i \in 1..MaxStarts |-> "waiting" ]
    /\ rr = [ running |-> FALSE, done |-> FALSE, error |-> FALSE ]
    /\ processed = 0
    /\ run_size = 0
    /\ decision = [ reset |-> None ]
    /\ managers = Unused
    /\ rr_counters = EmptyCounters
    /\ foreign_counter = 0
    /\ pc = "serving"
    /\ ticket = NoTicket
    /\ trace = NoTrace
    /\ hub_log = <<>>

\* run_pipeline_endpoint: answers "already running" if the flag is set,
\* else schedules _run; the flag is not touched.
StartRequest(i) ==
    /\ threads[i] = "waiting"
    /\ threads' = [ threads EXCEPT ![i] = IF rr.running THEN "refused"
                                          ELSE "accepted" ]
    /\ UNCHANGED <<managers, rr_counters, foreign_counter, pc, processed,
                   run_size, ticket, decision, trace, hub_log, rr>>

\* _run begins: _pipeline_status.update(running=True, done=False,
\* error=None), then run_pipeline up to its loop, reset_counters included.
BeginRun(i) ==
    /\ threads[i] = "accepted"
    /\ threads' = [ threads EXCEPT ![i] = "running" ]
    /\ rr' = [ running |-> TRUE, done |-> FALSE, error |-> FALSE ]
    /\ reset_counters
    /\ UNCHANGED <<managers, pc, processed, run_size, ticket, decision, trace,
                   hub_log>>

\* One iteration of the loop of run_pipeline: an analysis row is committed.
CommitRow(i) ==
    /\ threads[i] = "running"
    /\ processed < MaxRows
    /\ processed' = processed + 1
    /\ UNCHANGED <<managers, rr_counters, foreign_counter, pc, run_size,
                   ticket, decision, trace, hub_log, rr, threads>>

\* run_pipeline returns (done = True) or raises (error = str(e)); finally
\* running = False.
FinishRun(i) ==
    /\ threads[i] = "running"
    /\ threads' = [ threads EXCEPT ![i] = "ended" ]
    /\ \E raised \in BOOLEAN :
          rr' = [ running |-> FALSE,
                  done |-> IF raised THEN rr.done ELSE TRUE,
                  error |-> IF raised THEN TRUE ELSE rr.error ]
    /\ UNCHANGED <<managers, rr_counters, foreign_counter, pc, processed,
                   run_size, ticket, decision, trace, hub_log>>

\* reset_pipeline: 409 if the flag is set, else every table is emptied and
\* the status is cleared.
ResetRequest ==
    /\ run_size < MaxResets
    /\ run_size' = run_size + 1
    /\ IF rr.running
       THEN /\ decision' = [ reset |-> "409" ]
            /\ UNCHANGED <<processed, rr>>
       ELSE /\ decision' = [ reset |-> "wiped" ]
            /\ processed' = 0
            /\ rr' = [ running |-> FALSE, done |-> FALSE, error |-> FALSE ]
    /\ UNCHANGED <<managers, rr_counters, foreign_counter, pc, ticket, trace,
                   hub_log, threads>>

SpecStart ==
    /\ InitStart
    /\ [][
           \/ \E i \in 1..MaxStarts :
                 StartRequest(i) \/ BeginRun(i) \/ CommitRow(i) \/ FinishRun(i)
           \/ ResetRequest
       ]_vars

\* C35: at most one processing run executes at a time: a start request that
\* arrives while a run has been started and has not finished starts no
\* second run.
OneRunAtATime ==
    Cardinality({ i \in 1..MaxStarts : threads[i] = "running" }) <= 1

\* C36: a reset request sent after a run was accepted and before it
\* finished is refused and changes nothing; the status is back to
\* running = false once no run is left, and done and error are never both
\* set.
ResetRefusedDuringRun ==
    [][ /\ ( /\ run_size' = run_size + 1
             /\ \E i \in 1..MaxStarts : threads[i] \in {"accepted", "running"} )
           => /\ decision'.reset = "409"
              /\ processed' = processed
              /\ rr' = rr
        /\ (\A i \in 1..MaxStarts : threads'[i] \notin {"accepted", "running"})
           => ~rr'.running
        /\ ~(rr'.done /\ rr'.error) ]_vars

-----------------------------------------------------------------------------
(* _twogis_geocode called by several callers at once, with an API key and  *)
(* a provider that answers every request.  Each caller reads the clock and *)
(* _TWOGIS_LAST_CALL, sleeps, sends its request and stores the time of the *)
(* reply, and the steps of different callers interleave freely.  Time is   *)
(* counted in hundredths of a second.  rr.now is time.monotonic(),         *)
(* rr.TWOGIS_LAST_CALL the module variable; threads[i] is a caller's       *)
(* position and the time its sleep ends; hub_log keeps the time of every   *)
(* request in the order they were sent.                                    *)

NumCallers == 2     \* concurrent callers, one call each
MaxClock == 60      \* the clock stops here

InitGate ==
    /\ rr = [ now |-> TWOGIS_MIN_INTERVAL + 5, TWOGIS_LAST_CALL |-> 0 ]
    /\ threads = [ i \in 1..NumCallers |-> [ pc |-> "called", wake |-> 0 ] ]
    /\ hub_log = <<>>
    /\ pc = "gate"
    /\ managers = Unused
    /\ rr_counters = EmptyCounters
    /\ foreign_counter = 0
    /\ processed = 0
    /\ run_size = 0
    /\ ticket = NoTicket
    /\ decision = NoDecision
    /\ trace = NoTrace

\* elapsed = time.monotonic() - _TWOGIS_LAST_CALL, and the sleep the caller
\* enters if elapsed < _TWOGIS_MIN_INTERVAL.
ReadLastCall(i) ==
    /\ threads[i].pc = "called"
    /\ threads' = [ threads EXCEPT ![i] =
                      [ pc |-> "sleeping",
                        wake |-> SentAt(rr.now, rr.TWOGIS_LAST_CALL) ] ]
    /\ UNCHANGED <<managers, rr_counters, foreign_counter, pc, processed,
                   run_size, ticket, decision, trace, hub_log, rr>>

\* The sleep is over: httpx.get sends the request.
SendRequest(i) ==
    /\ threads[i].pc = "sleeping"
    /\ rr.now >= threads[i].wake
    /\ threads' = [ threads EXCEPT ![i].pc = "sent" ]
    /\ hub_log' = Append(hub_log, rr.now)
    /\ UNCHANGED <<managers, rr_counters, foreign_counter, pc, processed,
                   run_size, ticket, decision, trace, rr>>

\* The reply has passed raise_for_status:
\* _TWOGIS_LAST_CALL = time.monotonic().
StoreLastCall(i) ==
    /\ threads[i].pc = "sent"
    /\ threads' = [ threads EXCEPT ![i].pc = "returned" ]
    /\ rr' = [ rr EXCEPT !.TWOGIS_LAST_CALL = rr.now ]
    /\ UNCHANGED <<managers, rr_counters, foreign_counter, pc, processed,
                   run_size, ticket, decision, trace, hub_log>>

\* Time passes.
Tick ==
    /\ rr.now < MaxClock
    /\ \E d \in {5, TWOGIS_MIN_INTERVAL} : rr' = [ rr EXCEPT !.now = @ + d ]
    /\ UNCHANGED <<managers, rr_counters, foreign_counter, pc, processed,
                   run_size, ticket, decision, trace, hub_log, threads>>

SpecGate ==
    /\ InitGate
    /\ [][
           \/ \E i \in 1..NumCallers :
                 ReadLastCall(i) \/ SendRequest(i) \/ StoreLastCall(i)
           \/ Tick
       ]_vars

\* C37: with concurrent callers no two requests to the provider are sent
\* less than _TWOGIS_MIN_INTERVAL apart, however the callers' reads of the
\* last-call time, sleeps and requests interleave.
GateSeparatesRequests ==
    pc = "gate" =>
        \A j \in 2..Len(hub_log) :
            hub_log[j] - hub_log[j - 1] >= TWOGIS_MIN_INTERVAL

-----------------------------------------------------------------------------
(* run_pipeline called again and again on one database, without a reset    *)
(* of the data in between.  threads is the tickets table: for every ticket *)
(* its columns and classification, its analysis row (row = FALSE: none),    *)
(* the assignment rows committed for it and the calls of route_ticket made *)
(* for it.  rr keeps the pending list of the run, the runs started and the *)
(* loads the managers were loaded with; decision is the tuple of the last  *)
(* iteration; trace keeps, after a spam ticket, the routing state the      *)
(* iteration found.  The tickets name an office city or a foreign country, *)
(* so no request is sent to the provider.                                  *)

NumRunTickets == 3   \* tickets in the database
MaxRuns == 2         \* calls of run_pipeline

\* A foreign ticket, a ticket of Almaty, and a ticket the classifier calls
\* spam.
RunTickets ==
    { Ticket([ country |-> "lat:Russia", city |-> None, region |-> None ],
             << "Mass", "Konsultaciya", "RU", "Nejtralnyj" >>),
      Ticket([ country |-> "Kazakhstan", city |-> "Almaty", region |-> None ],
             << "Mass", "Konsultaciya", "RU", "Nejtralnyj" >>),
      Ticket([ country |-> "lat:Russia", city |-> None, region |-> None ],
             << "Mass", "Spam", "RU", "Nejtralnyj" >>) }

InitRuns ==
    /\ managers \in Rosters
    /\ \E ts \in [ 1..NumRunTickets -> RunTickets ] :
          threads = [ id \in 1..NumRunTickets |->
                        [ ticket |-> ts[id],
                          analysis |-> [ row |-> FALSE, office |-> None,
                                         coords |-> NoCoords ],
                          assignments |-> 0, routed |-> 0 ] ]
    /\ rr = [ pending |-> <<>>, runs |-> 0,
              start |-> [ i \in 1..NumManagers |-> managers[i].current_load ] ]
    /\ rr_counters = EmptyCounters
    /\ foreign_counter = 0
    /\ pc = "stopped"
    /\ processed = 0
    /\ run_size = 0
    /\ ticket = NoTicket
    /\ decision = NoDecision
    /\ trace = NoTrace
    /\ hub_log = <<>>

\* Every ticket pending, analysed or not.
pending_tickets_all(tickets) ==
    Indices(Len(tickets))

\* pending_tickets: the tickets without analysis, in table order.
pending_tickets(tickets) ==
    SelectSeq(Indices(Len(tickets)), LAMBDA id : ~tickets[id].analysis.row)

\* The iteration routing every ticket, spam or not.
process_ticket_routes_spam(ms, t, counters, counter) ==
    [ routed |-> TRUE,
      result |-> route_ticket(ms, t, counters, counter, NoCoords, NoCoords) ]

\* One iteration of the loop up to the persist: a spam ticket is given the
\* tuple (None, None, None, None, None), any other ticket is routed.
process_ticket(ms, t, counters, counter) ==
    IF t.ticket_type = "Spam"
    THEN [ routed |-> FALSE,
           result |-> [ manager |-> 0, office |-> None, coords |-> NoCoords,
                        rr_index |-> None, rr_counters |-> counters,
                        foreign_counter |-> counter ] ]
    ELSE [ routed |-> TRUE,
           result |-> route_ticket(ms, t, counters, counter, NoCoords, NoCoords) ]

\* run_pipeline up to its loop: reset_counters() and the pending list.
RunBegins ==
    /\ pc = "stopped"
    /\ rr.runs < MaxRuns
    /\ reset_counters
    /\ rr' = [ rr EXCEPT !.runs = @ + 1, !.pending = pending_tickets(threads) ]
    /\ pc' = "running"
    /\ trace' = NoTrace
    /\ UNCHANGED <<managers, processed, run_size, ticket, decision, hub_log,
                   threads>>

\* One iteration of the loop: analysis, routing unless spam, and the commit
\* of the analysis row, the assignment row and the load.
AnalyzeNext ==
    /\ pc = "running"
    /\ rr.pending # <<>>
    /\ \E id \in { Head(rr.pending) } :
       \E p \in { process_ticket(managers, threads[id].ticket, rr_counters,
                                 foreign_counter) } :
            /\ ticket' = threads[id].ticket
            /\ decision' = [ ticket |-> id, manager |-> p.result.manager,
                             office |-> p.result.office,
                             coords |-> p.result.coords,
                             rr_index |-> p.result.rr_index ]
            /\ rr_counters' = p.result.rr_counters
            /\ foreign_counter' = p.result.foreign_counter
            /\ managers' = IncrementLoad(managers, p.result.manager)
            /\ threads' = [ threads EXCEPT ![id] =
                 [ ticket |-> @.ticket,
                   analysis |-> [ row |-> TRUE, office |-> p.result.office,
                                  coords |-> p.result.coords ],
                   assignments |-> @.assignments
                                     + (IF p.result.manager # 0 THEN 1 ELSE 0),
                   routed |-> @.routed + (IF p.routed THEN 1 ELSE 0) ] ]
            /\ trace' = IF p.routed THEN NoTrace
                        ELSE [ branch |-> "spam", managers |-> managers,
                               rr_counters |-> rr_counters,
                               foreign_counter |-> foreign_counter ]
    /\ rr' = [ rr EXCEPT !.pending = Tail(@) ]
    /\ processed' = processed + 1
    /\ UNCHANGED <<pc, run_size, hub_log>>

\* The pending list is exhausted, or an iteration raises before its
\* routing: run_pipeline returns or propagates, the session is closed.
RunEnds ==
    /\ pc = "running"
    /\ pc' = "stopped"
    /\ rr' = [ rr EXCEPT !.pending = <<>> ]
    /\ UNCHANGED <<managers, rr_counters, foreign_counter, processed, run_size,
                   ticket, decision, trace, hub_log, threads>>

SpecRuns == InitRuns /\ [][RunBegins \/ AnalyzeNext \/ RunEnds]_vars

\* C38: a ticket classified as spam is never routed: its iteration leaves
\* every per-class counter, the shared counter and every workload as they
\* were, creates no assignment and records no office, no coordinates and no
\* rotation index; and the ticket after it is routed as it would have been
\* from the state the spam ticket found.
SpamNotRouted ==
    [][ /\ (processed' = processed + 1 /\ ticket'.ticket_type = "Spam")
           => /\ rr_counters' = rr_counters
              /\ foreign_counter' = foreign_counter
              /\ managers' = managers
              /\ decision'.manager = 0
              /\ decision'.office = None
              /\ decision'.coords = NoCoords
              /\ decision'.rr_index = None
              /\ threads'[decision'.ticket].assignments = 0
              /\ threads'[decision'.ticket].routed = 0
              /\ threads'[decision'.ticket].analysis
                    = [ row |-> TRUE, office |-> None, coords |-> NoCoords ]
        /\ ( /\ processed' = processed + 1
             /\ ticket'.ticket_type # "Spam"
             /\ trace.branch = "spam" )
           => LET r == route_ticket(trace.managers, ticket', trace.rr_counters,
                                    trace.foreign_counter, NoCoords, NoCoords)
              IN /\ decision'.manager = r.manager
                 /\ decision'.office = r.office
                 /\ decision'.rr_index = r.rr_index
                 /\ rr_counters' = r.rr_counters
                 /\ foreign_counter' = r.foreign_counter ]_vars

\* A spam ticket between two foreign tickets of one run: the hubs of the two
\* alternate, and the spam ticket has an analysis and nothing else.
SpamNotRoutedWitness ==
    /\ pc = "running"
    /\ processed = 3
    /\ rr.runs = 1
    /\ threads[2].ticket.ticket_type = "Spam"
    /\ threads[2].analysis
          = [ row |-> TRUE, office |-> None, coords |-> NoCoords ]
    /\ threads[2].assignments = 0
    /\ threads[1].ticket.country = "lat:Russia"
    /\ threads[3].ticket = threads[1].ticket
    /\ threads[1].assignments = 1
    /\ threads[3].assignments = 1
    /\ foreign_counter = 2
    /\ threads[1].analysis.office = "Astana"
    /\ threads[3].analysis.office = "Almaty"

\* C39: across the runs each ticket is routed at most once: a ticket with an
\* analysis is not pending again, so it has at most one assignment and one
\* call of route_ticket, the workloads have grown by the number of
\* assignments, and a ticket has its assignment only together with its
\* analysis.
RoutedAtMostOnce ==
    pc \in {"stopped", "running"} =>
        /\ \A id \in 1..NumRunTickets :
              /\ threads[id].routed <= 1
              /\ threads[id].assignments <= threads[id].routed
              /\ threads[id].routed = 1 => threads[id].analysis.row
              /\ ~threads[id].analysis.row => threads[id].assignments = 0
        /\ \A j \in 1..Len(rr.pending) : ~threads[rr.pending[j]].analysis.row
        /\ SumOver([ i \in 1..NumManagers |->
                       managers[i].current_load - rr.start[i] ],
                   1..NumManagers)
             = SumOver([ id \in 1..NumRunTickets |-> threads[id].assignments ],
                       1..NumRunTickets)

\* A second run that found a ticket analysed and assigned by the first, and
\* analysed the tickets the first had left.
RoutedAtMostOnceWitness ==
    /\ pc = "stopped"
    /\ rr.runs = 2
    /\ processed = NumRunTickets
    /\ decision.ticket = NumRunTickets
    /\ \A id \in 1..NumRunTickets : threads[id].analysis.row
    /\ threads[1].assignments = 1
    /\ rr_counters # EmptyCounters \/ foreign_counter > 0

====
